---------------------------- MODULE Spec2Model ----------------------------
(***************************************************************************)
(* A model of the audio recorder's hooks.                                  *)
(*                                                                         *)
(*   useAudioRecorder (src/unnamed/part_007): the recording state machine, *)
(*   its timers, the MediaRecorder callbacks, the cut/undo editor.         *)
(*   useAudioPlayer (src/src/hooks/useAudioPlayer.ts): the source-loading  *)
(*   effect and the asynchronous enhancement run.                          *)
(*                                                                         *)
(* React semantics used throughout: a handler invoked by the user reads    *)
(* the state of the latest render; the continuation of an async handler    *)
(* after an await keeps the values its closure captured when the handler   *)
(* was called; refs (xRef.current) are shared and read when used.  The     *)
(* code between two awaits runs as one step.                               *)
(*                                                                         *)
(* Times are integers in milliseconds, as Date.now() gives them; a        *)
(* duration the code keeps in seconds is kept here in milliseconds.        *)
(***************************************************************************)
EXTENDS Integers, Sequences, FiniteSets, TLC

VARIABLES
    \* useAudioRecorder: React state (part_007 lines 27-40)
    state, audioBlob, audioUrl, duration, currentTime,
    audioContext, analyser, countdownValue, undoHistory,
    \* useAudioRecorder: refs (part_007 lines 42-49)
    mediaRecorderRef, streamRef, chunksRef, startTimeRef, pausedTimeRef,
    intervalRef, sourceRef, countdownTimerRef,
    \* the platform: capture sessions (MediaStream + MediaRecorder), the
    \* clock, object URLs handed out, calls in flight
    sessions, now, urlSeq, starts, cuts,
    \* history variables, used only to state properties: the time spent in
    \* state recording; the recordings that were current when each cut not
    \* yet undone took effect, latest first; the snapshots pushed and not
    \* yet popped, latest first; the cut calls made; the cut calls and the
    \* undos in a row; whether a cut or an undo was called while a cut was
    \* in flight
    activeTime, cutLog, pushLog, cutCount, cutRun, undoRun, overlapped,
    \* the buffer the last accepted cutAudio call built
    newAudioBuffer,
    \* the audioContext the memoized resetRecording closed over: the
    \* callback is rebuilt only when audioUrl changes (deps, line 305)
    resetAudioContext,
    \* useAudioPlayer: its props audioUrl and volumeLevel
    playerAudioUrl, volumeLevel,
    \* useAudioPlayer: React state
    playerState, playerDuration, playerCurrentTime, playerAudioContext,
    playerAnalyser, processedAudioUrl, lastProcessedUrl, lastProcessedVolume,
    forceRecreation,
    \* useAudioPlayer: refs
    audioRef, playerIntervalRef, playerSourceRef,
    \* processAudio runs in flight
    runs,
    \* audio elements the hook made whose events are still to come
    elements,
    \* AudioContexts made so far, and the ones closed
    contextSeq, closedContexts,
    \* the media state of the audio elements the hook made: position and
    \* paused flag of audioRef.current, the play() promise awaited, and
    \* whether an element no longer referenced is still playing
    media,
    \* the downloadAudio call under way or last finished, with App's
    \* isConverting flag
    download,
    \* the last processAudio rendering of the player
    preview,
    \* the convertToMP3 call under way or last finished
    mp3,
    \* WaveformVisualizer: its waveformData state, and its props, its
    \* isRecordingComplete state and its sampling interval
    waveformData, visualizer,
    \* WaveformVisualizer: the last getRealAudioAmplitude call, its analyser
    \* input and the amplitude it returned
    reading

recState == <<state, audioBlob, audioUrl, duration, currentTime,
              audioContext, analyser, countdownValue, undoHistory>>
recRefs  == <<mediaRecorderRef, streamRef, chunksRef, startTimeRef,
              pausedTimeRef, intervalRef, sourceRef, countdownTimerRef>>
recEnv   == <<sessions, now, urlSeq, starts, cuts>>
editHist == <<cutLog, pushLog, cutCount, cutRun, undoRun, overlapped>>
recHist  == <<activeTime, editHist>>
cutVars  == <<cuts, newAudioBuffer>>
recVars  == <<recState, recRefs, recEnv, recHist, newAudioBuffer,
              resetAudioContext>>

playerProps == <<playerAudioUrl, volumeLevel>>
playerHook  == <<playerState, playerDuration, playerCurrentTime,
                 playerAudioContext, playerAnalyser, processedAudioUrl,
                 lastProcessedUrl, lastProcessedVolume, forceRecreation>>
playerRefs  == <<audioRef, playerIntervalRef, playerSourceRef>>
playerContexts == <<contextSeq, closedContexts>>
playerVars  == <<playerProps, playerHook, playerRefs, runs, elements,
                 playerContexts, media>>
exportVars == <<download, preview, mp3>>
waveVars == <<waveformData, visualizer, reading>>
vars == <<recVars, playerVars, exportVars, waveVars>>

---------------------------------------------------------------------------
(* Program constants *)

\* "elapsed / 1000": milliseconds per second
MsPerSecond == 1000
\* setInterval(..., 1000) of the countdown
CountdownIntervalMs == 1000
\* "let count = 3"
CountdownFrom == 3
\* "prev.slice(0, 2)": entries of the old history a push keeps
UndoKeep == 2

(* Bounds of the model *)

\* the clock stops advancing here (ms)
MaxNow == 4000
\* capture sessions (getUserMedia successes) in one behaviour
MaxSessions == 2
\* cutAudio calls in one behaviour
MaxCuts == 4
\* slots for startRecording calls in flight
StartIds == {1, 2}
\* slots for cutAudio calls in flight
CutIds == {1, 2}

Min(a, b) == IF a < b THEN a ELSE b
Max(a, b) == IF a > b THEN a ELSE b

---------------------------------------------------------------------------
(* Values *)

RecordingStates == {"idle", "countdown", "recording", "paused", "stopped"}

\* A Blob: its MIME type and what the platform's decoder makes of its
\* bytes: channel count, sample rate, and the samples, interleaved, as
\* 16-bit integers (a sample s stands for the float s / 32768).
NoBlob == [type |-> "null", nch |-> 0, rate |-> 0, data |-> <<>>]

\* A startRecording call that is not in flight.
NoBuffer == [numberOfChannels |-> 0, sampleRate |-> 0, length |-> 0,
             channels |-> <<>>]
NoCall == [pc |-> "free", st |-> "idle", ctx |-> 0, count |-> 0, due |-> 0]

\* The MIME type MediaRecorder.isTypeSupported selects first.
NegotiatedMime == "audio/webm;codecs=opus"

\* Sample rate the decoder reports for a captured blob (Hz, model scale).
\* the capture constraints; sample rates are scaled down, 4 standing for the
\* 48000 the program asks for
CaptureConstraints == [sampleRate |-> 4, channelCount |-> 1]

\* A capture session: the MediaStream getUserMedia returned and the
\* MediaRecorder built on it.  ctx is what the closure of the creating
\* startRecording call captured (audioContext); sliceDue says that a
\* timeslice of recording has passed and its dataavailable event is
\* queued; stopTask is the queued task that fires the last dataavailable
\* and then stop; emitted counts the non-empty chunks the recorder has
\* handed to ondataavailable so far.
NewSession(ctx) ==
    [stream |-> "live", rec |-> "none", sliceDue |-> FALSE,
     stopTask |-> FALSE, ctx |-> ctx, mime |-> NegotiatedMime,
     emitted |-> 0]

\* The data of the n-th chunk recorder i emits: a number of its own.
Chunk(i, n) == 100 * i + n

\* The non-empty chunks recorder i has emitted, in order.
Emitted(ss, i) == [n \in 1..ss[i].emitted |-> Chunk(i, n)]

SessionIds == 1..Len(sessions)

\* The least free slot for a call.
FreeSlot == CHOOSE c \in StartIds :
                /\ starts[c].pc = "free"
                /\ \A d \in StartIds : starts[d].pc = "free" => c <= d

HasFreeSlot == \E c \in StartIds : starts[c].pc = "free"

\* MediaRecorder.stop(): nothing on an inactive recorder, else the recorder
\* becomes inactive and the task firing dataavailable and stop is queued.
RecorderStop(ss, i) ==
    IF ss[i].rec \in {"recording", "paused"}
    THEN [ss EXCEPT ![i].rec = "inactive", ![i].stopTask = TRUE]
    ELSE ss

\* streamRef.current.getTracks().forEach(track => track.stop())
TracksStop(ss, i) ==
    IF i = 0 THEN ss ELSE [ss EXCEPT ![i].stream = "ended"]

---------------------------------------------------------------------------
(* useAudioRecorder: the recording state machine *)

\* updateTimer: the 100 ms interval's callback
UpdateTimer ==
    /\ intervalRef
    /\ currentTime' = now - startTimeRef
    /\ UNCHANGED <<state, audioBlob, audioUrl, duration, audioContext,
                   analyser, countdownValue, undoHistory>>
    /\ UNCHANGED <<recRefs, recEnv, recHist, newAudioBuffer>>
    /\ UNCHANGED <<playerVars, exportVars, waveVars>>
    /\ UNCHANGED resetAudioContext

\* startRecording called in state paused: resume
StartResume ==
    /\ state = "paused"
    /\ mediaRecorderRef # 0
    /\ sessions[mediaRecorderRef].rec = "paused"
    /\ startTimeRef' = startTimeRef + (now - pausedTimeRef)
    /\ sessions' = [sessions EXCEPT ![mediaRecorderRef].rec = "recording"]
    /\ state' = "recording"
    /\ intervalRef' = TRUE
    /\ UNCHANGED <<audioBlob, audioUrl, duration, currentTime, audioContext,
                   analyser, countdownValue, undoHistory>>
    /\ UNCHANGED <<mediaRecorderRef, streamRef, chunksRef, pausedTimeRef,
                   sourceRef, countdownTimerRef>>
    /\ UNCHANGED <<now, urlSeq, starts, cutVars, recHist>>
    /\ UNCHANGED <<playerVars, exportVars, waveVars>>
    /\ UNCHANGED resetAudioContext

\* startRecording called in state idle: startCountdown up to its promise
StartCountdown ==
    /\ state = "idle"
    /\ HasFreeSlot
    /\ LET c == FreeSlot IN
        /\ starts' = [starts EXCEPT ![c] =
                         [pc |-> "countdown", st |-> state, ctx |-> audioContext,
                          count |-> CountdownFrom,
                          due |-> now + CountdownIntervalMs]]
        /\ countdownTimerRef' = c
    /\ state' = "countdown"
    /\ countdownValue' = CountdownFrom
    /\ UNCHANGED <<audioBlob, audioUrl, duration, currentTime, audioContext,
                   analyser, undoHistory>>
    /\ UNCHANGED <<mediaRecorderRef, streamRef, chunksRef, startTimeRef,
                   pausedTimeRef, intervalRef, sourceRef>>
    /\ UNCHANGED <<sessions, now, urlSeq, cutVars, recHist>>
    /\ UNCHANGED <<playerVars, exportVars, waveVars>>
    /\ UNCHANGED resetAudioContext

\* startRecording called in any other state: straight to getUserMedia
StartDirect ==
    /\ state \notin {"paused", "idle"}
    /\ HasFreeSlot
    /\ starts' = [starts EXCEPT ![FreeSlot] =
                     [pc |-> "gum", st |-> state, ctx |-> audioContext,
                      count |-> 0, due |-> 0]]
    /\ UNCHANGED <<recState, recRefs, sessions, now, urlSeq, cutVars, recHist>>
    /\ UNCHANGED <<playerVars, exportVars, waveVars>>
    /\ UNCHANGED resetAudioContext

\* the countdown interval's callback
CountdownTick(c) ==
    /\ starts[c].pc = "countdown"
    /\ starts[c].due <= now
    /\ LET count == starts[c].count - 1 IN
        /\ countdownValue' = count
        /\ IF count <= 0
           THEN /\ countdownTimerRef' = 0
                /\ starts' = [starts EXCEPT ![c].pc = "gum", ![c].count = 0,
                                            ![c].due = 0]
           ELSE /\ countdownTimerRef' = countdownTimerRef
                /\ starts' = [starts EXCEPT ![c].count = count,
                                  ![c].due = starts[c].due + CountdownIntervalMs]
    /\ UNCHANGED <<state, audioBlob, audioUrl, duration, currentTime,
                   audioContext, analyser, undoHistory>>
    /\ UNCHANGED <<mediaRecorderRef, streamRef, chunksRef, startTimeRef,
                   pausedTimeRef, intervalRef, sourceRef>>
    /\ UNCHANGED <<sessions, now, urlSeq, cutVars, recHist>>
    /\ UNCHANGED <<playerVars, exportVars, waveVars>>
    /\ UNCHANGED resetAudioContext

\* getUserMedia rejects: the catch block logs and returns
GetUserMediaFails(c) ==
    /\ starts[c].pc = "gum"
    /\ starts' = [starts EXCEPT ![c] = NoCall]
    /\ UNCHANGED <<recState, recRefs, sessions, now, urlSeq, cutVars, recHist>>
    /\ UNCHANGED <<playerVars, exportVars, waveVars>>
    /\ UNCHANGED resetAudioContext

\* getUserMedia resolves: the rest of startRecording (lines 141-231).  The
\* new AudioContext is taken to be running, so the await of its resume()
\* (lines 147-149) is not a suspension point here.
GetUserMediaResolves(c) ==
    /\ starts[c].pc = "gum"
    /\ LET i == Len(sessions) + 1
           s == NewSession(starts[c].ctx)
       IN
        /\ streamRef' = i
        /\ sourceRef' = i
        /\ audioContext' = i
        /\ analyser' = i
        /\ mediaRecorderRef' = i
        /\ sessions' = Append(sessions, [s EXCEPT !.rec = "recording"])
    /\ chunksRef' = <<>>
    /\ startTimeRef' = now
    /\ pausedTimeRef' = 0
    /\ currentTime' = 0
    /\ state' = "recording"
    /\ intervalRef' = TRUE
    /\ starts' = [starts EXCEPT ![c] = NoCall]
    /\ activeTime' = 0
    /\ UNCHANGED <<audioBlob, audioUrl, duration, countdownValue, undoHistory>>
    /\ UNCHANGED <<countdownTimerRef, now, urlSeq, cutVars, editHist>>
    /\ UNCHANGED <<playerVars, exportVars, waveVars>>
    /\ UNCHANGED resetAudioContext

\* mediaRecorder.ondataavailable for a timeslice chunk (start(1000))
DataAvailable(i) ==
    /\ sessions[i].sliceDue
    /\ chunksRef' = Append(chunksRef, Chunk(i, sessions[i].emitted + 1))
    /\ sessions' = [sessions EXCEPT
                        ![i].sliceDue = FALSE,
                        ![i].emitted = @ + 1]
    /\ UNCHANGED <<recState, mediaRecorderRef, streamRef, startTimeRef,
                   pausedTimeRef, intervalRef, sourceRef, countdownTimerRef>>
    /\ UNCHANGED <<now, urlSeq, starts, cutVars, recHist>>
    /\ UNCHANGED <<playerVars, exportVars, waveVars>>
    /\ UNCHANGED resetAudioContext

\* the task MediaRecorder.stop() queued: the last dataavailable (size
\* lastSize), then mediaRecorder.onstop
RecorderStopped(i, lastSize) ==
    /\ sessions[i].stopTask
    /\ ~sessions[i].sliceDue
    /\ LET chunks == IF lastSize > 0
                     THEN Append(chunksRef, Chunk(i, sessions[i].emitted + 1))
                     ELSE chunksRef
       IN
        /\ chunksRef' = chunks
        /\ audioBlob' = [type |-> sessions[i].mime,
                         nch |-> CaptureConstraints.channelCount,
                         rate |-> CaptureConstraints.sampleRate,
                         data |-> chunks]
    /\ audioUrl' = urlSeq + 1
    /\ urlSeq' = urlSeq + 1
    /\ sessions' = [TracksStop(sessions, streamRef) EXCEPT
                        ![i].stopTask = FALSE,
                        ![i].emitted = IF lastSize > 0 THEN @ + 1 ELSE @]
    /\ streamRef' = 0
    /\ sourceRef' = 0
    /\ IF sessions[i].ctx # 0
       THEN audioContext' = 0 /\ analyser' = 0
       ELSE UNCHANGED <<audioContext, analyser>>
    /\ UNCHANGED <<state, duration, currentTime, countdownValue, undoHistory>>
    /\ UNCHANGED <<mediaRecorderRef, startTimeRef, pausedTimeRef, intervalRef,
                   countdownTimerRef>>
    /\ UNCHANGED <<now, starts, cutVars, recHist>>
    /\ UNCHANGED <<playerVars, exportVars, waveVars>>
    /\ resetAudioContext' = audioContext'

\* a pause that leaves the 100 ms timer running
PauseKeepsTimer ==
    /\ mediaRecorderRef # 0
    /\ state = "recording"
    /\ sessions[mediaRecorderRef].rec # "inactive"
    /\ sessions' = [sessions EXCEPT ![mediaRecorderRef].rec = "paused"]
    /\ state' = "paused"
    /\ pausedTimeRef' = now
    /\ UNCHANGED <<audioBlob, audioUrl, duration, currentTime, audioContext,
                   analyser, countdownValue, undoHistory>>
    /\ UNCHANGED <<mediaRecorderRef, streamRef, chunksRef, startTimeRef,
                   intervalRef, sourceRef, countdownTimerRef>>
    /\ UNCHANGED <<now, urlSeq, starts, cutVars, recHist>>
    /\ UNCHANGED <<playerVars, exportVars, waveVars>>
    /\ UNCHANGED resetAudioContext

\* pauseRecording; MediaRecorder.pause() throws on an inactive recorder,
\* before anything was changed
PauseRecording ==
    /\ mediaRecorderRef # 0
    /\ state = "recording"
    /\ sessions[mediaRecorderRef].rec # "inactive"
    /\ sessions' = [sessions EXCEPT ![mediaRecorderRef].rec = "paused"]
    /\ state' = "paused"
    /\ intervalRef' = FALSE
    /\ pausedTimeRef' = now
    /\ UNCHANGED <<audioBlob, audioUrl, duration, currentTime, audioContext,
                   analyser, countdownValue, undoHistory>>
    /\ UNCHANGED <<mediaRecorderRef, streamRef, chunksRef, startTimeRef,
                   sourceRef, countdownTimerRef>>
    /\ UNCHANGED <<now, urlSeq, starts, cutVars, recHist>>
    /\ UNCHANGED <<playerVars, exportVars, waveVars>>
    /\ UNCHANGED resetAudioContext

\* stopRecording, as far as the recorder hook goes
stopRecording ==
    /\ mediaRecorderRef # 0
    /\ state \in {"recording", "paused"}
    /\ LET finalDuration == now - startTimeRef IN
        /\ duration' = finalDuration
        /\ currentTime' = finalDuration
    /\ sessions' = RecorderStop(sessions, mediaRecorderRef)
    /\ state' = "stopped"
    /\ intervalRef' = FALSE
    /\ UNCHANGED <<audioBlob, audioUrl, audioContext, analyser,
                   countdownValue, undoHistory>>
    /\ UNCHANGED <<mediaRecorderRef, streamRef, chunksRef, startTimeRef,
                   pausedTimeRef, sourceRef, countdownTimerRef>>
    /\ UNCHANGED <<now, urlSeq, starts, cutVars, recHist>>
    /\ UNCHANGED resetAudioContext

\* stopRecording
StopRecording ==
    /\ stopRecording
    /\ UNCHANGED <<playerVars, exportVars, waveVars>>

\* resetRecording.  clearInterval on the countdown leaves that call's
\* promise unresolved for ever: the call is dropped.  audioContext is the
\* one the callback closed over, audioUrl is current whenever it is called.
ResetRecording ==
    /\ sessions' = TracksStop(
                       IF mediaRecorderRef # 0
                       THEN RecorderStop(sessions, mediaRecorderRef)
                       ELSE sessions,
                       streamRef)
    /\ streamRef' = 0
    /\ sourceRef' = 0
    /\ IF resetAudioContext # 0
       THEN audioContext' = 0 /\ analyser' = 0
       ELSE UNCHANGED <<audioContext, analyser>>
    /\ IF countdownTimerRef # 0
       THEN starts' = [starts EXCEPT ![countdownTimerRef] = NoCall]
       ELSE starts' = starts
    /\ countdownTimerRef' = 0
    /\ intervalRef' = FALSE
    /\ state' = "idle"
    /\ audioBlob' = NoBlob
    /\ audioUrl' = 0
    /\ duration' = 0
    /\ currentTime' = 0
    /\ countdownValue' = 0
    /\ startTimeRef' = 0
    /\ pausedTimeRef' = 0
    /\ chunksRef' = <<>>
    /\ undoHistory' = <<>>
    /\ cutLog' = <<>>
    /\ pushLog' = <<>>
    /\ cutRun' = 0
    /\ undoRun' = 0
    /\ overlapped' = (cuts # <<>>)
    /\ UNCHANGED <<mediaRecorderRef, now, urlSeq, cutVars, activeTime, cutCount>>
    /\ UNCHANGED <<playerVars, exportVars, waveVars>>
    /\ resetAudioContext' = audioContext'

\* One second of wall-clock time passes.  Timers and queued events fire on
\* time: a countdown interval that is due has fired, a running 100 ms timer
\* has fired since the clock last advanced, the events a MediaRecorder
\* queued have been delivered.  A recorder that recorded through the second
\* queues the dataavailable of its timeslice.
Tick ==
    /\ \A c \in StartIds : starts[c].pc = "countdown" => starts[c].due > now
    /\ intervalRef => currentTime = now - startTimeRef
    /\ \A i \in SessionIds : ~sessions[i].sliceDue /\ ~sessions[i].stopTask
    /\ sessions' = [i \in SessionIds |->
                       [sessions[i] EXCEPT
                           !.sliceDue = (sessions[i].rec = "recording")]]
    /\ now' = now + CountdownIntervalMs
    /\ activeTime' = IF state = "recording"
                     THEN activeTime + CountdownIntervalMs
                     ELSE activeTime
    /\ UNCHANGED <<recState, recRefs, urlSeq, starts, cutVars, editHist>>
    /\ UNCHANGED <<playerVars, exportVars, waveVars>>
    /\ UNCHANGED resetAudioContext

---------------------------------------------------------------------------
(* useAudioRecorder: the cut/undo editor *)

\* decodeAudioData: the AudioBuffer of a blob.  Channel c, frame i (from 1)
\* is sample (i - 1) * nch + c of the interleaved data.
Decode(blob) ==
    LET n == Len(blob.data) \div blob.nch IN
    [numberOfChannels |-> blob.nch,
     sampleRate |-> blob.rate,
     length |-> n,
     channels |-> [c \in 1..blob.nch |->
                      [i \in 1..n |-> blob.data[(i - 1) * blob.nch + c]]]]

\* DataView.setInt16 of a number: truncated toward zero
Trunc(num, den) ==
    IF num >= 0 THEN num \div den ELSE -((-num) \div den)

\* The 16-bit sample audioBufferToWav writes for the float s / 32768:
\* clamped to [-1, 1], times 0x8000 when negative, times 0x7FFF otherwise.
WavSample(s) ==
    LET clamped == Max(-32768, Min(32768, s)) IN
    IF clamped < 0 THEN Trunc(clamped * 32768, 32768)
    ELSE Trunc(clamped * 32767, 32768)

\* new Blob([audioBufferToWav(buffer)], {type: 'audio/wav'}): the frames in
\* order, the channels of a frame interleaved.
WavBlob(buffer) ==
    [type |-> "audio/wav",
     nch |-> buffer.numberOfChannels,
     rate |-> buffer.sampleRate,
     data |-> [k \in 1..(buffer.length * buffer.numberOfChannels) |->
                  WavSample(buffer.channels
                      [((k - 1) % buffer.numberOfChannels) + 1]
                      [((k - 1) \div buffer.numberOfChannels) + 1])]]

\* a sample position rounded to the nearest sample instead of floored
SampleAtRounded(time, sampleRate) ==
    (time * sampleRate + MsPerSecond \div 2) \div MsPerSecond

\* Math.floor(time * sampleRate), time in ms
SampleAt(time, sampleRate) == (time * sampleRate) \div MsPerSecond

\* cutAudio lines 366-400 on a decoded buffer: the new length, and the new
\* buffer when the cut is not rejected.  A Float32Array ignores a write
\* past its end and starts out all zero.
CutBuffer(buffer, startTime, endTime) ==
    LET startSample == SampleAt(startTime, buffer.sampleRate)
        endSample == SampleAt(endTime, buffer.sampleRate)
        originalLength == buffer.length
        cutLength == endSample - startSample
        newLength == originalLength - cutLength
        NewData(old) ==
            [k \in 1..Max(newLength, 0) |->
                LET i == k - 1 IN
                IF i < startSample THEN old[i + 1]
                ELSE IF i + cutLength >= endSample /\ i + cutLength < originalLength
                     THEN old[i + cutLength + 1]
                     ELSE 0]
    IN  [newLength |-> newLength,
         buffer |-> [numberOfChannels |-> buffer.numberOfChannels,
                     sampleRate |-> buffer.sampleRate,
                     length |-> Max(newLength, 0),
                     channels |-> [c \in 1..buffer.numberOfChannels |->
                                      NewData(buffer.channels[c])]]]

\* newAudioBuffer.length / sampleRate, in ms
BufferDuration(buffer) == (buffer.length * MsPerSecond) \div buffer.sampleRate

\* a push that discards nothing
PushUndoAll(history, blob, dur) ==
    <<[blob |-> blob, duration |-> dur]>> \o history

\* saveToUndoHistory's updater: the snapshot, then the first entries of the
\* old history
PushUndo(history, blob, dur) ==
    <<[blob |-> blob, duration |-> dur]>>
        \o SubSeq(history, 1, Min(UndoKeep, Len(history)))

\* what a cut must not lose: the recording and the undo stack (kept with a
\* call in flight only to state properties)
Recording ==
    [audioBlob |-> audioBlob, audioUrl |-> audioUrl, duration |-> duration,
     undoHistory |-> undoHistory]

\* cutAudio up to its first await: the snapshot is pushed, then the blob's
\* bytes are awaited.  The call keeps the audioBlob and currentTime of the
\* render it was made in.
CutStart(startTime, endTime) ==
    /\ audioBlob # NoBlob
    /\ Len(cuts) < Cardinality(CutIds)
    /\ cutCount < MaxCuts
    /\ undoHistory' = PushUndo(undoHistory, audioBlob, duration)
    /\ cuts' = Append(cuts, [blob |-> audioBlob, currentTime |-> currentTime,
                             startTime |-> startTime, endTime |-> endTime,
                             before |-> Recording])
    /\ pushLog' = <<[blob |-> audioBlob, duration |-> duration]>> \o pushLog
    /\ cutCount' = cutCount + 1
    /\ cutRun' = IF undoRun > 0 THEN 1 ELSE Min(cutRun + 1, UndoKeep + 2)
    /\ undoRun' = 0
    /\ overlapped' = (overlapped \/ cuts # <<>>)
    /\ UNCHANGED <<state, audioBlob, audioUrl, duration, currentTime,
                   audioContext, analyser, countdownValue>>
    /\ UNCHANGED <<recRefs, sessions, now, urlSeq, starts, activeTime, cutLog,
                   newAudioBuffer>>
    /\ UNCHANGED <<playerVars, exportVars, waveVars>>
    /\ UNCHANGED resetAudioContext

Without(seq, k) == SubSeq(seq, 1, k - 1) \o SubSeq(seq, k + 1, Len(seq))

\* arrayBuffer() or decodeAudioData rejects: the catch block logs
CutDecodeFails(k) ==
    /\ k \in 1..Len(cuts)
    /\ cuts' = Without(cuts, k)
    /\ cutLog' = <<[blob |-> audioBlob, duration |-> duration]>> \o cutLog
    /\ UNCHANGED <<recState, recRefs, sessions, now, urlSeq, starts,
                   activeTime, pushLog, cutCount, cutRun, undoRun, overlapped,
                   newAudioBuffer>>
    /\ UNCHANGED <<playerVars, exportVars, waveVars>>
    /\ UNCHANGED resetAudioContext

\* the blob is decoded: the rest of cutAudio
CutFinish(k) ==
    /\ k \in 1..Len(cuts)
    /\ LET call == cuts[k]
           cut == CutBuffer(Decode(call.blob), call.startTime, call.endTime)
           newDuration == BufferDuration(cut.buffer)
       IN
        IF cut.newLength <= 0
        THEN UNCHANGED <<audioBlob, audioUrl, duration, currentTime, urlSeq,
                         newAudioBuffer>>
        ELSE /\ newAudioBuffer' = cut.buffer
             /\ audioBlob' = WavBlob(cut.buffer)
             /\ audioUrl' = urlSeq + 1
             /\ urlSeq' = urlSeq + 1
             /\ duration' = newDuration
             /\ currentTime' = IF call.currentTime > newDuration
                               THEN newDuration
                               ELSE currentTime
    /\ cuts' = Without(cuts, k)
    /\ cutLog' = <<[blob |-> audioBlob, duration |-> duration]>> \o cutLog
    /\ UNCHANGED <<state, audioContext, analyser, countdownValue, undoHistory>>
    /\ UNCHANGED <<recRefs, sessions, now, starts, activeTime, pushLog,
                   cutCount, cutRun, undoRun, overlapped>>
    /\ UNCHANGED <<playerVars, exportVars, waveVars>>
    /\ resetAudioContext' = IF audioUrl' # audioUrl
                            THEN audioContext' ELSE resetAudioContext

\* an undo that takes the oldest entry of the stack instead of the latest
UndoOldest ==
    /\ Len(undoHistory) # 0
    /\ LET previousState == undoHistory[Len(undoHistory)]
           remainingHistory == SubSeq(undoHistory, 1, Len(undoHistory) - 1)
       IN
        /\ audioBlob' = previousState.blob
        /\ duration' = previousState.duration
        /\ undoHistory' = remainingHistory
    /\ audioUrl' = urlSeq + 1
    /\ urlSeq' = urlSeq + 1
    /\ currentTime' = 0
    /\ cutLog' = IF cutLog = <<>> THEN cutLog ELSE Tail(cutLog)
    /\ pushLog' = IF pushLog = <<>> THEN pushLog ELSE Tail(pushLog)
    /\ undoRun' = Min(undoRun + 1, UndoKeep + 2)
    /\ overlapped' = (overlapped \/ cuts # <<>>)
    /\ UNCHANGED <<state, audioContext, analyser, countdownValue>>
    /\ UNCHANGED <<recRefs, sessions, now, starts, cutVars, activeTime,
                   cutCount, cutRun>>
    /\ UNCHANGED <<playerVars, exportVars, waveVars>>
    /\ resetAudioContext' = audioContext'

\* undo
Undo ==
    /\ Len(undoHistory) # 0
    /\ LET previousState == Head(undoHistory)
           remainingHistory == Tail(undoHistory)
       IN
        /\ audioBlob' = previousState.blob
        /\ duration' = previousState.duration
        /\ undoHistory' = remainingHistory
    /\ audioUrl' = urlSeq + 1
    /\ urlSeq' = urlSeq + 1
    /\ currentTime' = 0
    /\ cutLog' = IF cutLog = <<>> THEN cutLog ELSE Tail(cutLog)
    /\ pushLog' = IF pushLog = <<>> THEN pushLog ELSE Tail(pushLog)
    /\ undoRun' = Min(undoRun + 1, UndoKeep + 2)
    /\ overlapped' = (overlapped \/ cuts # <<>>)
    /\ UNCHANGED <<state, audioContext, analyser, countdownValue>>
    /\ UNCHANGED <<recRefs, sessions, now, starts, cutVars, activeTime,
                   cutCount, cutRun>>
    /\ UNCHANGED <<playerVars, exportVars, waveVars>>
    /\ resetAudioContext' = audioContext'

---------------------------------------------------------------------------
(* useAudioPlayer: loading the source *)

\* object URLs the player may be given as its source
MaxUrls == 2
\* processAudio runs in flight at once
MaxRuns == 2
\* audio elements whose loadedmetadata or analysis timeout is still to come
MaxElements == 2
\* AudioContexts setupAudioAnalysis may create
MaxContexts == 1
\* stops that force the audio element to be created again
MaxRecreations == 1

VolumeLevels == {"low", "standard", "high"}

\* App passes true
autoEnhance == TRUE

\* A URL as the player sees it: null, the object URL of a recording, or the
\* object URL of the audio processAudio rendered from a recording at a
\* volume level.
NoUrl == [kind |-> "null", url |-> 0, volume |-> "none"]
OriginalUrl(url) == [kind |-> "original", url |-> url, volume |-> "none"]
ProcessedUrl(url, volume) == [kind |-> "processed", url |-> url, volume |-> volume]

\* audioRef.current: null, or the element new Audio(src) made
NoAudio == [element |-> FALSE, src |-> NoUrl]
Audio(src) == [element |-> TRUE, src |-> src]

\* audio.duration of the media behind a URL, in ms: recording n lasts n s
ElementDuration(src) == src.url * MsPerSecond

\* the media state of a new Audio(src), and of no element: position 0,
\* paused.  promise is the play() promise the hook awaits: "none",
\* "pending" on audioRef.current, "detached" (pending on an element that
\* audioRef no longer references) or "aborted" (pause() ran before
\* playback started, the promise will reject).
NoMedia == [currentTime |-> 0, paused |-> TRUE, promise |-> "none", orphan |-> FALSE]

\* audio.pause(): a play() promise still pending is rejected
ElementPause(m) ==
    [m EXCEPT !.paused = TRUE,
              !.promise = IF @ = "pending" THEN "aborted" ELSE @]

\* audioRef.current is given up for a new element or null: the promise and
\* the elements no longer referenced stay, position and paused flag are
\* those of a new element
ElementReplaced(m) ==
    [m EXCEPT !.currentTime = 0,
              !.paused = TRUE,
              !.promise = IF @ = "pending" THEN "detached" ELSE @,
              !.orphan = @ \/ (~m.paused /\ m.promise # "pending")]

\* the hook after its first render and effect, with no source
PlayerMounted ==
    /\ playerAudioUrl = 0
    /\ volumeLevel = "standard"
    /\ playerState = "idle"
    /\ playerDuration = 0
    /\ playerCurrentTime = 0
    /\ playerAudioContext = 0
    /\ playerAnalyser = 0
    /\ processedAudioUrl = NoUrl
    /\ lastProcessedUrl = 0
    /\ lastProcessedVolume = "none"
    /\ forceRecreation = 0
    /\ audioRef = NoAudio
    /\ playerIntervalRef = FALSE
    /\ playerSourceRef = NoAudio
    /\ runs = <<>>
    /\ elements = {}
    /\ contextSeq = 0
    /\ closedContexts = {}
    /\ media = NoMedia

\* the hook's state and refs as one value, as a handler sees them
Player ==
    [state |-> playerState, duration |-> playerDuration,
     currentTime |-> playerCurrentTime, audioContext |-> playerAudioContext,
     analyser |-> playerAnalyser, processedAudioUrl |-> processedAudioUrl,
     lastProcessedUrl |-> lastProcessedUrl,
     lastProcessedVolume |-> lastProcessedVolume,
     forceRecreation |-> forceRecreation, audioRef |-> audioRef,
     intervalRef |-> playerIntervalRef, sourceRef |-> playerSourceRef,
     runs |-> runs, elements |-> elements, closedContexts |-> closedContexts,
     media |-> media]

\* the hook's state and refs after a handler that leaves them as p
SetPlayer(p) ==
    /\ playerState' = p.state
    /\ playerDuration' = p.duration
    /\ playerCurrentTime' = p.currentTime
    /\ playerAudioContext' = p.audioContext
    /\ playerAnalyser' = p.analyser
    /\ processedAudioUrl' = p.processedAudioUrl
    /\ lastProcessedUrl' = p.lastProcessedUrl
    /\ lastProcessedVolume' = p.lastProcessedVolume
    /\ forceRecreation' = p.forceRecreation
    /\ audioRef' = p.audioRef
    /\ playerIntervalRef' = p.intervalRef
    /\ playerSourceRef' = p.sourceRef
    /\ runs' = p.runs
    /\ elements' = p.elements
    /\ closedContexts' = p.closedContexts
    /\ media' = p.media

\* new Audio(src) with its loadedmetadata listener, which calls the
\* setupAudioAnalysis of the render whose audioContext was ctx
NewAudio(p, src, ctx) ==
    [p EXCEPT !.audioRef = Audio(src),
              !.media = ElementReplaced(@),
              !.elements = @ \cup {[src |-> src, ctx |-> ctx,
                                    stage |-> "loading"]}]

\* the cache-hit test of the effect
CacheHit(p, url, volume) ==
    /\ p.lastProcessedUrl = url
    /\ p.lastProcessedVolume = volume
    /\ p.processedAudioUrl # NoUrl

\* The source-loading effect, run for the props (url, volume) of a render
\* whose state and refs are p.  The effect returns no cleanup: a
\* processAudio run it started stays in flight when the effect runs again.
SourceEffect(p, url, volume) ==
    IF /\ p.audioRef.element
       /\ url # 0
       /\ p.audioRef.src = OriginalUrl(url)
       /\ p.forceRecreation = 0
    THEN p
    ELSE
        LET q == [p EXCEPT !.audioRef = NoAudio,
                           !.media = ElementReplaced(ElementPause(@)),
                           !.sourceRef = NoAudio,
                           !.analyser = IF p.audioContext # 0 THEN 0 ELSE @]
        IN  IF url # 0
            THEN IF autoEnhance
                 THEN IF CacheHit(p, url, volume)
                      THEN NewAudio(q, p.processedAudioUrl, p.audioContext)
                      ELSE [q EXCEPT
                              !.lastProcessedUrl = url,
                              !.lastProcessedVolume = volume,
                              !.runs = Append(@, [audioUrl |-> url,
                                                  volumeLevel |-> volume,
                                                  ctx |-> p.audioContext])]
                 ELSE NewAudio(q, OriginalUrl(url), p.audioContext)
            ELSE [q EXCEPT
                    !.intervalRef = FALSE,
                    !.processedAudioUrl = NoUrl,
                    !.duration = 0,
                    !.currentTime = 0,
                    !.state = "idle",
                    !.audioContext = 0,
                    !.closedContexts =
                        IF p.audioContext # 0
                        THEN @ \cup {p.audioContext} ELSE @]

\* The parent renders the hook with another audioUrl or volumeLevel, and
\* the effect runs.
SourceChanges(url, volume) ==
    /\ <<url, volume>> # <<playerAudioUrl, volumeLevel>>
    /\ Len(runs) < MaxRuns
    /\ playerAudioUrl' = url
    /\ volumeLevel' = volume
    /\ SetPlayer(SourceEffect(Player, url, volume))
    /\ UNCHANGED <<contextSeq, recVars, exportVars, waveVars>>

\* processAudio resolves with the URL of the rendered audio, and the
\* effect's then-callback loads it
ProcessResolves(k) ==
    /\ k \in 1..Len(runs)
    /\ LET processedUrl == ProcessedUrl(runs[k].audioUrl, runs[k].volumeLevel)
           p == [Player EXCEPT !.processedAudioUrl = processedUrl,
                               !.runs = Without(runs, k)]
       IN  SetPlayer(NewAudio(p, processedUrl, runs[k].ctx))
    /\ UNCHANGED <<playerProps, contextSeq, recVars, exportVars, waveVars>>

\* a failed run that is dropped without loading anything
ProcessFailsLoadsNothing(k) ==
    /\ k \in 1..Len(runs)
    /\ runs' = Without(runs, k)
    /\ UNCHANGED <<playerHook, playerRefs, elements, media>>
    /\ UNCHANGED <<playerProps, playerContexts, recVars, exportVars, waveVars>>

\* processAudio catches an error and resolves with null: the then-callback
\* falls back to the audioUrl of the render that started the run
ProcessFails(k) ==
    /\ k \in 1..Len(runs)
    /\ LET p == [Player EXCEPT !.runs = Without(runs, k),
                               !.media = ElementPause(@)]
       IN  SetPlayer(NewAudio(p, OriginalUrl(runs[k].audioUrl), runs[k].ctx))
    /\ UNCHANGED <<playerProps, contextSeq, recVars, exportVars, waveVars>>

\* loadedmetadata of an audio element the hook made: the listener
\* publishes the duration and arms the 100 ms timeout
LoadedMetadata(e) ==
    /\ e \in elements
    /\ e.stage = "loading"
    /\ playerDuration' = ElementDuration(e.src)
    /\ elements' = (elements \ {e}) \cup {[e EXCEPT !.stage = "timeout"]}
    /\ UNCHANGED <<playerState, playerCurrentTime, playerAudioContext,
                   playerAnalyser, processedAudioUrl, lastProcessedUrl,
                   lastProcessedVolume, forceRecreation>>
    /\ UNCHANGED <<playerProps, playerRefs, runs, playerContexts, media,
                   recVars, exportVars, waveVars>>

\* The timeout calls setupAudioAnalysis(audio) of the render that made
\* the element: with no audioContext in that render a new one is made and
\* published; createMediaElementSource throws on a closed context, and the
\* catch leaves everything as it was.
SetupAudioAnalysis(e) ==
    /\ e \in elements
    /\ e.stage = "timeout"
    /\ elements' = elements \ {e}
    /\ IF e.ctx = 0
       THEN /\ contextSeq' = contextSeq + 1
            /\ playerAudioContext' = contextSeq + 1
            /\ playerSourceRef' = Audio(e.src)
            /\ playerAnalyser' = 1
       ELSE /\ UNCHANGED <<contextSeq, playerAudioContext>>
            /\ IF e.ctx \in closedContexts
               THEN UNCHANGED <<playerSourceRef, playerAnalyser>>
               ELSE /\ playerSourceRef' = Audio(e.src)
                    /\ playerAnalyser' = 1
    /\ UNCHANGED <<playerState, playerDuration, playerCurrentTime,
                   processedAudioUrl, lastProcessedUrl, lastProcessedVolume,
                   forceRecreation, audioRef, playerIntervalRef, runs,
                   closedContexts, media>>
    /\ UNCHANGED <<playerProps, recVars, exportVars, waveVars>>

\* stop(), as far as the player hook goes: with an analysis source connected
\* it bumps forceRecreation, and the effect of the following render builds
\* the audio element again
stop ==
    LET p == [Player EXCEPT !.state = "idle",
                            !.intervalRef = FALSE,
                            !.currentTime = 0,
                            !.media = [ElementPause(@) EXCEPT
                                          !.currentTime = 0]]
    IN  IF playerSourceRef # NoAudio
        THEN SetPlayer(SourceEffect(
                 [p EXCEPT !.sourceRef = NoAudio,
                           !.forceRecreation = @ + 1],
                 playerAudioUrl, volumeLevel))
        ELSE SetPlayer(p)

\* a stop that only halts and resets, without building the element again
StopKeepsElement ==
    /\ LET p == [Player EXCEPT !.state = "idle",
                               !.intervalRef = FALSE,
                               !.currentTime = 0,
                               !.media = [ElementPause(@) EXCEPT
                                             !.currentTime = 0]]
       IN  IF playerSourceRef # NoAudio
           THEN SetPlayer([p EXCEPT !.sourceRef = NoAudio])
           ELSE SetPlayer(p)
    /\ UNCHANGED <<playerProps, contextSeq, recVars, exportVars, waveVars>>

\* stop()
Stop ==
    /\ stop
    /\ UNCHANGED <<playerProps, contextSeq, recVars, exportVars, waveVars>>

---------------------------------------------------------------------------
(* useAudioPlayer: play, pause, seek and the element's events *)

\* the position of an element advances by this much between two events (ms)
PositionStepMs == 500
\* the largest time seek is called with (ms)
MaxSeek == 1000

\* play(): with an element it calls audio.play() and awaits the promise; an
\* element that has ended starts again from 0.  Without an element it only
\* logs.
Play ==
    /\ IF audioRef.element
       THEN media' = [media EXCEPT
                        !.paused = FALSE,
                        !.promise = "pending",
                        !.currentTime =
                            IF @ >= ElementDuration(audioRef.src) THEN 0 ELSE @]
       ELSE UNCHANGED media
    /\ UNCHANGED <<playerProps, playerHook, playerRefs, runs, elements,
                   playerContexts, recVars, exportVars, waveVars>>

\* the play() promise resolves: setState('playing'), startTimer()
PlayResolves ==
    /\ media.promise \in {"pending", "detached"}
    /\ playerState' = "playing"
    /\ playerIntervalRef' = TRUE
    /\ media' = [media EXCEPT !.promise = "none",
                              !.orphan = @ \/ media.promise = "detached"]
    /\ UNCHANGED <<playerDuration, playerCurrentTime, playerAudioContext,
                   playerAnalyser, processedAudioUrl, lastProcessedUrl,
                   lastProcessedVolume, forceRecreation, audioRef,
                   playerSourceRef>>
    /\ UNCHANGED <<playerProps, runs, elements, playerContexts, recVars,
                   exportVars, waveVars>>

\* the play() promise rejects (not allowed, not supported, or aborted by a
\* pause()): the catch does setState('idle'); the element stays paused
PlayRejects ==
    /\ media.promise \in {"pending", "detached", "aborted"}
    /\ playerState' = "idle"
    /\ media' = [media EXCEPT !.promise = "none",
                              !.paused = @ \/ media.promise = "pending"]
    /\ UNCHANGED <<playerDuration, playerCurrentTime, playerAudioContext,
                   playerAnalyser, processedAudioUrl, lastProcessedUrl,
                   lastProcessedVolume, forceRecreation>>
    /\ UNCHANGED <<playerProps, playerRefs, runs, elements, playerContexts,
                   recVars, exportVars, waveVars>>

\* pause(): with an element it halts it, stops the timer and publishes the
\* element's position
Pause ==
    /\ IF audioRef.element
       THEN /\ media' = ElementPause(media)
            /\ playerState' = "paused"
            /\ playerIntervalRef' = FALSE
            /\ playerCurrentTime' = media.currentTime
       ELSE UNCHANGED <<media, playerState, playerIntervalRef,
                        playerCurrentTime>>
    /\ UNCHANGED <<playerDuration, playerAudioContext, playerAnalyser,
                   processedAudioUrl, lastProcessedUrl, lastProcessedVolume,
                   forceRecreation, audioRef, playerSourceRef>>
    /\ UNCHANGED <<playerProps, runs, elements, playerContexts, recVars,
                   exportVars, waveVars>>

\* a seek that also halts playback
SeekPauses(time) ==
    /\ IF audioRef.element
       THEN /\ media' = [ElementPause(media) EXCEPT
                           !.currentTime = Min(time, ElementDuration(audioRef.src))]
            /\ playerCurrentTime' = time
            /\ playerState' = "paused"
            /\ playerIntervalRef' = FALSE
       ELSE UNCHANGED <<media, playerCurrentTime, playerState,
                        playerIntervalRef>>
    /\ UNCHANGED <<playerDuration, playerAudioContext, playerAnalyser,
                   processedAudioUrl, lastProcessedUrl, lastProcessedVolume,
                   forceRecreation, audioRef, playerSourceRef>>
    /\ UNCHANGED <<playerProps, runs, elements, playerContexts, recVars,
                   exportVars, waveVars>>

\* seek(time): with an element it sets the element's position, which the
\* element keeps within its duration, and publishes time
Seek(time) ==
    /\ IF audioRef.element
       THEN /\ media' = [media EXCEPT
                           !.currentTime = Min(time, ElementDuration(audioRef.src))]
            /\ playerCurrentTime' = time
       ELSE UNCHANGED <<media, playerCurrentTime>>
    /\ UNCHANGED <<playerState, playerDuration, playerAudioContext,
                   playerAnalyser, processedAudioUrl, lastProcessedUrl,
                   lastProcessedVolume, forceRecreation>>
    /\ UNCHANGED <<playerProps, playerRefs, runs, elements, playerContexts,
                   recVars, exportVars, waveVars>>

\* audioRef.current is playing: not paused, and no play() promise pending
ElementPlaying ==
    audioRef.element /\ ~media.paused /\ media.promise # "pending"

\* the playing element moves on and fires 'timeupdate': updateTime
\* publishes its position
TimeUpdate ==
    /\ ElementPlaying
    /\ media.currentTime < ElementDuration(audioRef.src)
    /\ media' = [media EXCEPT
                    !.currentTime = Min(@ + PositionStepMs,
                                        ElementDuration(audioRef.src))]
    /\ playerCurrentTime' = media'.currentTime
    /\ UNCHANGED <<playerState, playerDuration, playerAudioContext,
                   playerAnalyser, processedAudioUrl, lastProcessedUrl,
                   lastProcessedVolume, forceRecreation>>
    /\ UNCHANGED <<playerProps, playerRefs, runs, elements, playerContexts,
                   recVars, exportVars, waveVars>>

\* the 100 ms interval fires: updateTime publishes the position of
\* audioRef.current, if there is one
UpdateTime ==
    /\ playerIntervalRef
    /\ playerCurrentTime' =
          IF audioRef.element THEN media.currentTime ELSE playerCurrentTime
    /\ UNCHANGED <<playerState, playerDuration, playerAudioContext,
                   playerAnalyser, processedAudioUrl, lastProcessedUrl,
                   lastProcessedVolume, forceRecreation>>
    /\ UNCHANGED <<playerProps, playerRefs, runs, elements, playerContexts,
                   media, recVars, exportVars, waveVars>>

\* an 'ended' listener that leaves the position where it is
EndedKeepsPosition(current) ==
    /\ IF current
       THEN /\ ElementPlaying
            /\ media.currentTime = ElementDuration(audioRef.src)
            /\ media' = [media EXCEPT !.paused = TRUE]
       ELSE /\ media.orphan
            /\ media' = [media EXCEPT !.orphan = FALSE]
    /\ playerState' = "ended"
    /\ playerIntervalRef' = FALSE
    /\ UNCHANGED <<playerDuration, playerCurrentTime, playerAudioContext,
                   playerAnalyser, processedAudioUrl, lastProcessedUrl,
                   lastProcessedVolume, forceRecreation, audioRef,
                   playerSourceRef>>
    /\ UNCHANGED <<playerProps, runs, elements, playerContexts, recVars,
                   exportVars, waveVars>>

\* 'ended' of an element the hook made, audioRef.current or one it no
\* longer references: setState('ended'), stopTimer(), setCurrentTime(0).
\* The element that reached its end is paused by the browser.
Ended(current) ==
    /\ IF current
       THEN /\ ElementPlaying
            /\ media.currentTime = ElementDuration(audioRef.src)
            /\ media' = [media EXCEPT !.paused = TRUE]
       ELSE /\ media.orphan
            /\ media' = [media EXCEPT !.orphan = FALSE]
    /\ playerState' = "ended"
    /\ playerIntervalRef' = FALSE
    /\ playerCurrentTime' = 0
    /\ UNCHANGED <<playerDuration, playerAudioContext, playerAnalyser,
                   processedAudioUrl, lastProcessedUrl, lastProcessedVolume,
                   forceRecreation, audioRef, playerSourceRef>>
    /\ UNCHANGED <<playerProps, runs, elements, playerContexts, recVars,
                   exportVars, waveVars>>

---------------------------------------------------------------------------
(* Enhancement chains: useAudioPlayer and useAudioEnhancement *)

\* Audio nodes as the builders configure them.  frequency is in Hz; every
\* other parameter is in thousandths of the unit the source writes (Q 0.7
\* is 700, -18 dB is -18000, 0.003 s is 3, a gain of 1.5 is 1500).  A
\* parameter the builder does not set keeps the platform's default (Q 1,
\* gain 0 dB).
BufferSource == [node |-> "AudioBufferSource", type |-> "", params |-> <<>>]
BiquadFilter(type, frequency, Q, gain) ==
    [node |-> "BiquadFilter", type |-> type, params |-> <<frequency, Q, gain>>]
DynamicsCompressor(threshold, knee, ratio, attack, release) ==
    [node |-> "DynamicsCompressor", type |-> "",
     params |-> <<threshold, knee, ratio, attack, release>>]
GainNode(gain) == [node |-> "Gain", type |-> "", params |-> <<gain>>]

\* chain[i].connect(chain[i + 1]) for every i but the last
ConnectSerially(chain) == {<<i, i + 1>> : i \in 1..(Len(chain) - 1)}

\* no chain built
NoChain == [nodes |-> <<>>, connections |-> {}]

\* volume values a caller can pass at run time: the three levels and
\* anything else
AnyVolume == VolumeLevels \cup {"other"}

\* useAudioPlayer.getVolumeMultiplier, in thousandths
getVolumeMultiplierUnity(volume) ==
    CASE volume = "low" -> 1000
      [] volume = "standard" -> 3000
      [] volume = "high" -> 4500
      [] OTHER -> 3000

getVolumeMultiplier(volume) ==
    CASE volume = "low" -> 1500
      [] volume = "standard" -> 3000
      [] volume = "high" -> 4500
      [] OTHER -> 3000

\* useAudioPlayer.createEnhancementChain with the limiter ahead of the
\* makeup gain
createEnhancementChainLimiterFirst(level) ==
    LET chain == <<BufferSource,
                   BiquadFilter("highpass", 85, 700, 0),
                   BiquadFilter("lowpass", 8000, 700, 0),
                   BiquadFilter("peaking", 6500, 2000, -2000),
                   DynamicsCompressor(-18000, 8000, 6000, 3, 100),
                   BiquadFilter("peaking", 800, 1000, 2000),
                   BiquadFilter("peaking", 2800, 1200, 5000),
                   BiquadFilter("peaking", 4500, 1500, 3000),
                   BiquadFilter("lowshelf", 300, 1000, 2500),
                   BiquadFilter("highshelf", 6000, 1000, 2500),
                   DynamicsCompressor(-32000, 6000, 3000, 10, 200),
                   DynamicsCompressor(-500, 0, 20000, 1, 30),
                   GainNode(getVolumeMultiplier(level))>>
    IN  [nodes |-> chain, connections |-> ConnectSerially(chain)]

\* useAudioPlayer.createEnhancementChain: the chain array, source first,
\* and the connections made
createEnhancementChain(level) ==
    LET chain == <<BufferSource,
                   BiquadFilter("highpass", 85, 700, 0),
                   BiquadFilter("lowpass", 8000, 700, 0),
                   BiquadFilter("peaking", 6500, 2000, -2000),
                   DynamicsCompressor(-18000, 8000, 6000, 3, 100),
                   BiquadFilter("peaking", 800, 1000, 2000),
                   BiquadFilter("peaking", 2800, 1200, 5000),
                   BiquadFilter("peaking", 4500, 1500, 3000),
                   BiquadFilter("lowshelf", 300, 1000, 2500),
                   BiquadFilter("highshelf", 6000, 1000, 2500),
                   DynamicsCompressor(-32000, 6000, 3000, 10, 200),
                   GainNode(getVolumeMultiplier(level)),
                   DynamicsCompressor(-500, 0, 20000, 1, 30)>>
    IN  [nodes |-> chain, connections |-> ConnectSerially(chain)]

\* useAudioEnhancement.getVolumeMultiplier, in thousandths
enhancementGetVolumeMultiplier(volume) ==
    CASE volume = "low" -> 1500
      [] volume = "standard" -> 3000
      [] volume = "high" -> 4500
      [] OTHER -> 3000

\* useAudioEnhancement.createProcessingChain with the voice-clarity boost
\* of an older tuning
createProcessingChainOldTuning(level) ==
    LET chain == <<BufferSource,
                   BiquadFilter("highpass", 85, 700, 0),
                   BiquadFilter("lowpass", 8000, 700, 0),
                   BiquadFilter("peaking", 6500, 2000, -2000),
                   DynamicsCompressor(-18000, 8000, 6000, 3, 100),
                   BiquadFilter("peaking", 800, 1000, 2000),
                   BiquadFilter("peaking", 2800, 1200, 4000),
                   BiquadFilter("peaking", 4500, 1500, 3000),
                   BiquadFilter("lowshelf", 300, 1000, 2500),
                   BiquadFilter("highshelf", 6000, 1000, 2500),
                   DynamicsCompressor(-32000, 6000, 3000, 10, 200),
                   GainNode(enhancementGetVolumeMultiplier(level)),
                   DynamicsCompressor(-500, 0, 20000, 1, 30)>>
    IN  [nodes |-> chain, connections |-> ConnectSerially(chain)]

\* useAudioEnhancement.createProcessingChain
createProcessingChain(level) ==
    LET chain == <<BufferSource,
                   BiquadFilter("highpass", 85, 700, 0),
                   BiquadFilter("lowpass", 8000, 700, 0),
                   BiquadFilter("peaking", 6500, 2000, -2000),
                   DynamicsCompressor(-18000, 8000, 6000, 3, 100),
                   BiquadFilter("peaking", 800, 1000, 2000),
                   BiquadFilter("peaking", 2800, 1200, 5000),
                   BiquadFilter("peaking", 4500, 1500, 3000),
                   BiquadFilter("lowshelf", 300, 1000, 2500),
                   BiquadFilter("highshelf", 6000, 1000, 2500),
                   DynamicsCompressor(-32000, 6000, 3000, 10, 200),
                   GainNode(enhancementGetVolumeMultiplier(level)),
                   DynamicsCompressor(-500, 0, 20000, 1, 30)>>
    IN  [nodes |-> chain, connections |-> ConnectSerially(chain)]

---------------------------------------------------------------------------
(* WAV headers: useAudioPlayer and useFileManager *)

\* DataView.setUint16 and setUint32 keep the low 16 and 32 bits (the low
\* 32 bits written as two 16-bit halves)
Uint16(x) == x % 65536
Uint32(x) == Uint16(x \div 65536) * 65536 + Uint16(x)

\* The 16-bit sample useAudioPlayer.audioBufferToWav writes for the float
\* s / 32768: clamped to [-1, 1], times 0x8000 when negative, times 0x7FFF
\* otherwise, truncated by setInt16.
playerWavSample(s) ==
    LET clamped == Max(-32768, Min(32768, s)) IN
    IF clamped < 0 THEN Trunc(clamped * 32768, 32768)
    ELSE Trunc(clamped * 32767, 32768)

\* The 16-bit sample useFileManager.audioBufferToWav writes: clamped to
\* [-1, 1], times 0x7FFF whatever the sign, truncated by setInt16.
fileWavSample(s) ==
    LET clamped == Max(-32768, Min(32768, s)) IN
    Trunc(clamped * 32767, 32768)

\* the sample loop of the encoders: frames in order, the channels of a
\* frame interleaved
Interleaved(buffer) ==
    [k \in 1..(buffer.length * buffer.numberOfChannels) |->
        buffer.channels[((k - 1) % buffer.numberOfChannels) + 1]
                       [((k - 1) \div buffer.numberOfChannels) + 1]]

\* no WAV written
NoWav ==
    [riff |-> "", riffSize |-> 0, wave |-> "", fmt |-> "", fmtSize |-> 0,
     audioFormat |-> 0, numberOfChannels |-> 0, sampleRate |-> 0,
     byteRate |-> 0, blockAlign |-> 0, bitsPerSample |-> 0, data |-> "",
     dataSize |-> 0, dataOffset |-> 0, byteLength |-> 0, samples |-> <<>>]

\* useAudioPlayer.audioBufferToWav writing the whole length into the RIFF
\* size field
playerAudioBufferToWavWholeSize(buffer) ==
    LET bitsPerSample == 16
        bytesPerSample == bitsPerSample \div 8
        blockAlign == buffer.numberOfChannels * bytesPerSample
        byteRate == buffer.sampleRate * blockAlign
        dataSize == buffer.length * blockAlign
        bufferSize == 44 + dataSize
    IN  [riff |-> "RIFF", riffSize |-> Uint32(bufferSize),
         wave |-> "WAVE", fmt |-> "fmt ", fmtSize |-> Uint32(16),
         audioFormat |-> Uint16(1),
         numberOfChannels |-> Uint16(buffer.numberOfChannels),
         sampleRate |-> Uint32(buffer.sampleRate),
         byteRate |-> Uint32(byteRate), blockAlign |-> Uint16(blockAlign),
         bitsPerSample |-> Uint16(bitsPerSample), data |-> "data",
         dataSize |-> Uint32(dataSize), dataOffset |-> 44,
         byteLength |-> bufferSize,
         samples |-> [k \in DOMAIN Interleaved(buffer) |->
                        playerWavSample(Interleaved(buffer)[k])]]

\* useAudioPlayer.audioBufferToWav: the header fields, the offset of the
\* first sample and the length of the ArrayBuffer
playerAudioBufferToWav(buffer) ==
    LET bitsPerSample == 16
        bytesPerSample == bitsPerSample \div 8
        blockAlign == buffer.numberOfChannels * bytesPerSample
        byteRate == buffer.sampleRate * blockAlign
        dataSize == buffer.length * blockAlign
        bufferSize == 44 + dataSize
    IN  [riff |-> "RIFF", riffSize |-> Uint32(bufferSize - 8),
         wave |-> "WAVE", fmt |-> "fmt ", fmtSize |-> Uint32(16),
         audioFormat |-> Uint16(1),
         numberOfChannels |-> Uint16(buffer.numberOfChannels),
         sampleRate |-> Uint32(buffer.sampleRate),
         byteRate |-> Uint32(byteRate), blockAlign |-> Uint16(blockAlign),
         bitsPerSample |-> Uint16(bitsPerSample), data |-> "data",
         dataSize |-> Uint32(dataSize), dataOffset |-> 44,
         byteLength |-> bufferSize,
         samples |-> [k \in DOMAIN Interleaved(buffer) |->
                        playerWavSample(Interleaved(buffer)[k])]]

\* useFileManager.audioBufferToWav: the same fields
fileAudioBufferToWav(buffer) ==
    LET bitsPerSample == 16
        bytesPerSample == bitsPerSample \div 8
        blockAlign == buffer.numberOfChannels * bytesPerSample
        byteRate == buffer.sampleRate * blockAlign
        dataSize == buffer.length * blockAlign
        bufferSize == 44 + dataSize
    IN  [riff |-> "RIFF", riffSize |-> Uint32(bufferSize - 8),
         wave |-> "WAVE", fmt |-> "fmt ", fmtSize |-> Uint32(16),
         audioFormat |-> Uint16(1),
         numberOfChannels |-> Uint16(buffer.numberOfChannels),
         sampleRate |-> Uint32(buffer.sampleRate),
         byteRate |-> Uint32(byteRate), blockAlign |-> Uint16(blockAlign),
         bitsPerSample |-> Uint16(bitsPerSample), data |-> "data",
         dataSize |-> Uint32(dataSize), dataOffset |-> 44,
         byteLength |-> bufferSize,
         samples |-> [k \in DOMAIN Interleaved(buffer) |->
                        fileWavSample(Interleaved(buffer)[k])]]

---------------------------------------------------------------------------
(* Export: App.handleDownload and useFileManager.downloadAudio *)

ExportFormats == {"wav", "mp3", "webm"}

\* A blob as the export sees it: its MIME type, the container its bytes
\* really are, and whether the audio in it is the raw recording or the
\* enhanced rendering.
ExportBlob(type, container, audio) ==
    [type |-> type, container |-> container, audio |-> audio]

\* no blob
NoExportBlob == ExportBlob("", "", "")

\* what the recorder can publish: a capture in a MIME type startRecording
\* negotiates, or the WAV a cut leaves
RecorderBlobs ==
    {ExportBlob("audio/webm;codecs=opus", "webm", "raw"),
     ExportBlob("audio/mp4", "mp4", "raw"),
     ExportBlob("audio/wav", "wav", "raw")}

\* Decoded AudioBuffers, a sample s standing for the float s / 32768: an
\* empty mono buffer; 100 stereo frames at 44100 Hz that sweep from below
\* -1.0 to above +1.0 (the left channel passes through -1.0 and +1.0
\* exactly); three mono frames at 22050 Hz of small and half-scale samples
ExportBuffers ==
    {[numberOfChannels |-> 1, sampleRate |-> 48000, length |-> 0,
      channels |-> << <<>> >>],
     [numberOfChannels |-> 2, sampleRate |-> 44100, length |-> 100,
      channels |-> <<[i \in 1..100 |-> (i - 51) * 1024],
                     [i \in 1..100 |-> (i - 51) * 1024 + 1]>>],
     [numberOfChannels |-> 1, sampleRate |-> 22050, length |-> 3,
      channels |-> << <<-1, 1, -16384>> >>]}

NoExportBuffer ==
    [numberOfChannels |-> 0, sampleRate |-> 0, length |-> 0, channels |-> <<>>]

\* nothing saved
NoSave == [filename |-> "", blob |-> NoExportBlob]

\* App and useFileManager after mounting: no download under way
ExportMounted ==
    /\ download = [pc |-> "idle", isConverting |-> FALSE,
                   audioBlob |-> NoExportBlob, filename |-> "",
                   format |-> "", processBuffer |-> FALSE,
                   volume |-> "standard", buffer |-> NoExportBuffer,
                   processedBlob |-> NoExportBlob, rendered |-> FALSE,
                   chain |-> NoChain, wav |-> NoWav, saved |-> NoSave]
    /\ preview = [volume |-> "standard", buffer |-> NoExportBuffer,
                  chain |-> NoChain, wav |-> NoWav]
    /\ mp3 = [pc |-> "idle", audioBlob |-> NoExportBlob,
              audioBuffer |-> NoExportBuffer,
              run |-> [log |-> <<>>, mp3Data |-> <<>>, thrown |-> FALSE],
              result |-> NoExportBlob, bytes |-> <<>>]

\* the extension of the default file name in the last branch of
\* downloadAudio
TypeExtension(type) ==
    IF type \in {"audio/webm;codecs=opus", "audio/webm"} THEN "webm"
    ELSE IF type = "audio/mp4" THEN "mp4" ELSE "wav"

\* the end of downloadAudio: the link is clicked with the file name (its
\* extension here) and the blob; handleDownload's finally then clears
\* isConverting
Save(d, defaultExtension) ==
    [d EXCEPT !.pc = "done",
              !.isConverting = FALSE,
              !.saved = [filename |-> IF d.filename # "" THEN d.filename
                                      ELSE defaultExtension,
                         blob |-> d.processedBlob]]

\* downloadAudio from the format branches on, up to its next await
Convert(d) ==
    IF d.format = "wav" /\ ~d.processBuffer THEN [d EXCEPT !.pc = "convert"]
    ELSE IF d.format = "wav" /\ d.processBuffer THEN Save(d, "wav")
    ELSE IF d.format = "mp3" THEN [d EXCEPT !.pc = "convert"]
    ELSE Save(d, TypeExtension(d.audioBlob.type))

\* downloadAudio(audioBlob, filename, format, processBuffer) is called;
\* filename "" and format "" stand for undefined, and a processBuffer
\* callback is useAudioEnhancement's processBuffer at the volume given
DownloadAudioCall(d, blob, filename, format, processBuffer, volume, buffer) ==
    LET d0 == [d EXCEPT !.audioBlob = blob,
                        !.filename = filename,
                        !.format = format,
                        !.processBuffer = processBuffer,
                        !.volume = volume,
                        !.buffer = buffer,
                        !.processedBlob = blob,
                        !.rendered = FALSE,
                        !.chain = NoChain,
                        !.wav = NoWav,
                        !.saved = NoSave]
    IN  IF processBuffer THEN [d0 EXCEPT !.pc = "enhance"] ELSE Convert(d0)

\* a caller other than App calls downloadAudio, naming no file
DownloadAudio(blob, format, processBuffer, volume, buffer) ==
    /\ download.pc \in {"idle", "done"}
    /\ download' = DownloadAudioCall(download, blob, "", format,
                                     processBuffer, volume, buffer)
    /\ UNCHANGED <<preview, mp3, recVars, playerVars, waveVars>>

\* App.handleDownload with a recording present: the file name carries the
\* selected format as its extension
HandleDownload(blob, selectedFormat, selectedVolume, buffer) ==
    /\ ~download.isConverting
    /\ download.pc \in {"idle", "done"}
    /\ download' = DownloadAudioCall(
                       [download EXCEPT !.isConverting = TRUE],
                       blob, selectedFormat, selectedFormat, TRUE,
                       selectedVolume, buffer)
    /\ UNCHANGED <<preview, mp3, recVars, playerVars, waveVars>>

\* the enhancement block of downloadAudio runs through: the blob decodes,
\* processBuffer builds the chain, the offline context renders and the
\* rendering is encoded as WAV
EnhanceResolves ==
    /\ download.pc = "enhance"
    /\ download' = Convert(
           [download EXCEPT
              !.chain = createProcessingChain(download.volume),
              !.wav = fileAudioBufferToWav(download.buffer),
              !.rendered = TRUE,
              !.processedBlob = ExportBlob("audio/wav", "wav", "enhanced")])
    /\ UNCHANGED <<preview, mp3, recVars, playerVars, waveVars>>

\* the enhancement block throws (the blob does not decode, rendering
\* fails): the catch keeps the original blob
EnhanceFails ==
    /\ download.pc = "enhance"
    /\ download' = Convert(download)
    /\ UNCHANGED <<preview, mp3, recVars, playerVars, waveVars>>

\* convertToWAV or convertToMP3 resolves with the conversion of audioBlob
ConvertResolves ==
    /\ download.pc = "convert"
    /\ download' =
         IF download.format = "wav"
         THEN Save([download EXCEPT !.processedBlob =
                       ExportBlob("audio/wav", "wav", download.audioBlob.audio)],
                   "wav")
         ELSE Save([download EXCEPT !.processedBlob =
                       ExportBlob("audio/mpeg", "mp3", download.audioBlob.audio)],
                   "mp3")
    /\ UNCHANGED <<preview, mp3, recVars, playerVars, waveVars>>

\* convertToWAV or convertToMP3 catches an error and resolves with the
\* blob it was given
ConvertFails ==
    /\ download.pc = "convert"
    /\ download' = Save([download EXCEPT !.processedBlob = download.audioBlob],
                        download.format)
    /\ UNCHANGED <<preview, mp3, recVars, playerVars, waveVars>>

\* useAudioPlayer.processAudio runs through for a decoded buffer: it
\* builds the chain for the volume level, renders and encodes the WAV
ProcessAudio(volume, buffer) ==
    /\ preview' = [volume |-> volume, buffer |-> buffer,
                   chain |-> createEnhancementChain(volume),
                   wav |-> playerAudioBufferToWav(buffer)]
    /\ UNCHANGED <<download, mp3, recVars, playerVars, waveVars>>

---------------------------------------------------------------------------
(* useFileManager.convertToMP3 *)

\* samples per encodeBuffer call
blockSize == 1152

\* lengths of the decoded buffers tried: empty, one sample, one full
\* block, one sample more, and two blocks and a sample
Mp3Lengths == {0, 1, blockSize, blockSize + 1, 2 * blockSize + 1}

\* The decoded samples tried, a sample s standing for the float s / 32768:
\* the first ones sit on and around -1.0 and +1.0, the rest sweep the range
\* from about -1.5 to 1.5; channel 2 is channel 1 negated.
Mp3Source(channel, i) ==
    LET edge == <<-32769, 32768, -32768, 32769, -50000, 50000, -1, 1, 0>>
        s == IF i <= Len(edge) THEN edge[i]
             ELSE ((i * 997) % 100001) - 50000
    IN  IF channel = 1 THEN s ELSE -s

Mp3Buffers ==
    {[numberOfChannels |-> c, sampleRate |-> 48000, length |-> n,
      channels |-> [ch \in 1..c |-> [i \in 1..n |-> Mp3Source(ch, i)]]] :
        c \in {1, 2}, n \in Mp3Lengths}

\* Math.round of num / 32768: the nearest integer, halves toward +infinity
Round(num) == (num + 16384) \div 32768

\* Math.max(-32768, Math.min(32767, Math.round(sample * 32767))) for the
\* float s / 32768
mp3Sample(s) == Max(-32768, Min(32767, Round(s * 32767)))

\* the bytes the encoder returns from its k-th call when it returns any
\* (call 0 is the flush)
EncodedBytes(k) == <<10 * k + 1, 10 * k + 2>>

\* what the encoder does in one call: return no bytes, return bytes, throw
EncoderOutcomes == {"empty", "bytes", "throw"}

\* a buffer of only the samples left in the channel, without padding
BlockUnpadded(channel, offset, totalSamples) ==
    [i \in 1..Min(blockSize, totalSamples - offset) |->
        mp3Sample(channel[offset + i])]

\* an Int16Array(blockSize) filled from a channel at offset, zero past the
\* end of the channel
Block(channel, offset, totalSamples) ==
    [i \in 1..blockSize |->
        IF offset + i - 1 < totalSamples
        THEN mp3Sample(channel[offset + i])
        ELSE 0]

\* no encoder run
NoRun == [log |-> <<>>, mp3Data |-> <<>>, thrown |-> FALSE]

\* the block loop from offset on: every encoder call is logged with the
\* buffers it receives and the bytes it returns, every non-empty result is
\* pushed to mp3Data; a throw ends the loop
RECURSIVE EncodeBlocks(_, _, _, _)
EncodeBlocks(buffer, behaviour, offset, run) ==
    IF offset >= buffer.length THEN run
    ELSE
        LET k == Len(run.log) + 1
            call == [op |-> "encodeBuffer",
                     left |-> Block(buffer.channels[1], offset, buffer.length),
                     right |-> IF buffer.numberOfChannels > 1
                               THEN Block(buffer.channels[2], offset,
                                          buffer.length)
                               ELSE <<>>,
                     out |-> IF behaviour[k] = "bytes"
                             THEN EncodedBytes(k) ELSE <<>>]
            logged == [run EXCEPT !.log = Append(@, call)]
        IN  IF behaviour[k] = "throw" THEN [logged EXCEPT !.thrown = TRUE]
            ELSE EncodeBlocks(buffer, behaviour, offset + blockSize,
                     IF behaviour[k] = "bytes"
                     THEN [logged EXCEPT !.mp3Data = Append(@, EncodedBytes(k))]
                     ELSE logged)

\* the block loop with the flush moved ahead of the last block
EncodeAllFlushEarly(buffer, behaviour) ==
    LET blocks == EncodeBlocks(buffer, behaviour, 0, NoRun)
        last == behaviour[Len(behaviour)]
        flush == [op |-> "flush", left |-> <<>>, right |-> <<>>,
                  out |-> IF last = "bytes" THEN EncodedBytes(0) ELSE <<>>]
        n == Len(blocks.log)
    IN  IF blocks.thrown THEN blocks
        ELSE [blocks EXCEPT
                !.log = IF n = 0 THEN <<flush>>
                        ELSE SubSeq(@, 1, n - 1) \o <<flush>>
                                 \o SubSeq(@, n, n),
                !.thrown = (last = "throw"),
                !.mp3Data = IF last = "bytes"
                            THEN Append(@, EncodedBytes(0)) ELSE @]

\* the block loop and, unless it threw, the flush of the encoder
\* (behaviour's last entry is what the flush does)
EncodeAll(buffer, behaviour) ==
    LET blocks == EncodeBlocks(buffer, behaviour, 0, NoRun)
        last == behaviour[Len(behaviour)]
        flush == [op |-> "flush", left |-> <<>>, right |-> <<>>,
                  out |-> IF last = "bytes" THEN EncodedBytes(0) ELSE <<>>]
    IN  IF blocks.thrown THEN blocks
        ELSE [blocks EXCEPT
                !.log = Append(@, flush),
                !.thrown = (last = "throw"),
                !.mp3Data = IF last = "bytes"
                            THEN Append(@, EncodedBytes(0)) ELSE @]

\* finalBuffer: the chunks of mp3Data one after the other
RECURSIVE Combine(_)
Combine(mp3Data) ==
    IF mp3Data = <<>> THEN <<>>
    ELSE Head(mp3Data) \o Combine(Tail(mp3Data))

\* no conversion under way
Mp3Idle ==
    [pc |-> "idle", audioBlob |-> NoExportBlob, audioBuffer |-> NoExportBuffer,
     run |-> NoRun, result |-> NoExportBlob, bytes |-> <<>>]

\* convertToMP3(audioBlob) is called and awaits the decoded buffer
ConvertToMP3(blob, buffer) ==
    /\ mp3.pc \in {"idle", "done"}
    /\ mp3' = [Mp3Idle EXCEPT !.pc = "decode", !.audioBlob = blob,
                              !.audioBuffer = buffer]
    /\ UNCHANGED <<download, preview, recVars, playerVars, waveVars>>

\* the catch of convertToMP3: the original blob is returned
Mp3Fallback(m) ==
    [m EXCEPT !.pc = "done", !.result = m.audioBlob, !.bytes = <<>>]

\* arrayBuffer() or decodeAudioData rejects
Mp3DecodeFails ==
    /\ mp3.pc = "decode"
    /\ mp3' = Mp3Fallback(mp3)
    /\ UNCHANGED <<download, preview, recVars, playerVars, waveVars>>

\* decodeAudioData resolves: the encoder is made, the block loop runs and
\* the encoder is flushed, up to the await of audioContext.close()
Mp3Decoded(behaviour) ==
    /\ mp3.pc = "decode"
    /\ LET run == EncodeAll(mp3.audioBuffer, behaviour)
       IN  mp3' = IF run.thrown
                  THEN Mp3Fallback([mp3 EXCEPT !.run = run])
                  ELSE [mp3 EXCEPT !.pc = "close", !.run = run]
    /\ UNCHANGED <<download, preview, recVars, playerVars, waveVars>>

\* audioContext.close() resolves with empty output treated as success
Mp3ClosedEmptyAccepted ==
    /\ mp3.pc = "close"
    /\ mp3' = [mp3 EXCEPT !.pc = "done",
                          !.result = ExportBlob("audio/mpeg", "mp3",
                                                mp3.audioBlob.audio),
                          !.bytes = Combine(mp3.run.mp3Data)]
    /\ UNCHANGED <<download, preview, recVars, playerVars, waveVars>>

\* audioContext.close() resolves: no bytes at all is thrown and caught,
\* otherwise the chunks are combined into the audio/mpeg blob
Mp3Closed ==
    /\ mp3.pc = "close"
    /\ mp3' = IF Len(Combine(mp3.run.mp3Data)) = 0
              THEN Mp3Fallback(mp3)
              ELSE [mp3 EXCEPT !.pc = "done",
                               !.result = ExportBlob("audio/mpeg", "mp3",
                                                     mp3.audioBlob.audio),
                               !.bytes = Combine(mp3.run.mp3Data)]
    /\ UNCHANGED <<download, preview, recVars, playerVars, waveVars>>

\* audioContext.close() rejects
Mp3CloseFails ==
    /\ mp3.pc = "close"
    /\ mp3' = Mp3Fallback(mp3)
    /\ UNCHANGED <<download, preview, recVars, playerVars, waveVars>>

---------------------------------------------------------------------------
(* WaveformVisualizer: the live waveform *)

\* the canvas width
width == 1200

\* Math.floor((width - 40) / 2)
maxPoints == (width - 40) \div 2

\* Natural numbers beyond 32 bits, as sequences of base-10000 digits, the
\* least significant first: the comparisons of getRealAudioAmplitude are
\* decided exactly on them.
RECURSIVE BigOf(_)
BigOf(n) == IF n < 10000 THEN <<n>> ELSE <<n % 10000>> \o BigOf(n \div 10000)

RECURSIVE BigTimes(_, _, _)
BigTimes(a, n, carry) ==
    IF a = <<>>
    THEN IF carry = 0 THEN <<>> ELSE BigOf(carry)
    ELSE LET t == Head(a) * n + carry
         IN  <<t % 10000>> \o BigTimes(Tail(a), n, t \div 10000)

RECURSIVE BigAdd(_, _, _)
BigAdd(a, b, carry) ==
    IF a = <<>> /\ b = <<>>
    THEN IF carry = 0 THEN <<>> ELSE <<carry>>
    ELSE LET x == IF a = <<>> THEN 0 ELSE Head(a)
             y == IF b = <<>> THEN 0 ELSE Head(b)
             t == x + y + carry
         IN  <<t % 10000>> \o BigAdd(IF a = <<>> THEN a ELSE Tail(a),
                                    IF b = <<>> THEN b ELSE Tail(b),
                                    t \div 10000)

RECURSIVE BigMul(_, _)
BigMul(a, b) ==
    IF b = <<>> THEN <<>>
    ELSE BigAdd(BigTimes(a, Head(b), 0), <<0>> \o BigMul(a, Tail(b)), 0)

RECURSIVE BigPow(_, _)
BigPow(a, k) == IF k = 0 THEN <<1>> ELSE BigMul(a, BigPow(a, k - 1))

RECURSIVE BigTrim(_)
BigTrim(a) ==
    IF a # <<>> /\ a[Len(a)] = 0 THEN BigTrim(SubSeq(a, 1, Len(a) - 1)) ELSE a

RECURSIVE BigLess(_, _)
BigLess(a, b) ==
    LET x == BigTrim(a)
        y == BigTrim(b)
    IN  IF Len(x) # Len(y) THEN Len(x) < Len(y)
        ELSE IF x = <<>> THEN FALSE
        ELSE IF x[Len(x)] # y[Len(y)] THEN x[Len(x)] < y[Len(y)]
        ELSE BigLess(SubSeq(x, 1, Len(x) - 1), SubSeq(y, 1, Len(y) - 1))

\* analyser.fftSize, the length of the time-domain buffer
fftSize == 512

\* a time-domain buffer getByteTimeDomainData fills: count samples of one
\* byte value, the rest at 128 (silence)
TimeData(count, byte) == [i \in 1..fftSize |-> IF i <= count THEN byte ELSE 128]

\* sum of sample * sample over the entries lo..hi of the buffer, in units
\* of 1 / (128 * 128); the range is halved to keep the evaluation shallow
RECURSIVE SumSquares(_, _, _)
SumSquares(timeDataArray, lo, hi) ==
    IF lo > hi THEN 0
    ELSE IF lo = hi
    THEN (timeDataArray[lo] - 128) * (timeDataArray[lo] - 128)
    ELSE LET mid == (lo + hi) \div 2
         IN  SumSquares(timeDataArray, lo, mid)
                 + SumSquares(timeDataArray, mid + 1, hi)

\* responsive = Math.pow(Math.sqrt(sum / bufferLength) * 4, 0.6), compared
\* with c / 100: responsive < c / 100 exactly when
\* (16 * sum / bufferLength)^3 < (c / 100)^10, with sum in units of
\* 1 / 16384, that is sum^3 * 100^10 < c^10 * (1024 * bufferLength)^3
ResponsiveBelow(sum, bufferLength, c) ==
    BigLess(BigMul(BigPow(BigOf(sum), 3), BigPow(BigOf(100), 10)),
            BigMul(BigPow(BigOf(c), 10), BigPow(BigOf(1024 * bufferLength), 3)))

\* An amplitude: hundredths when it is one of the constants 0.05, 0.08 and
\* 0.85, else the value of responsive for the sum of squares given
Amplitude(hundredths) == [hundredths |-> hundredths, responsive |-> 0]
Responsive(sum) == [hundredths |-> 0, responsive |-> sum]

NoReading ==
    [analyser |-> FALSE, state |-> "none", timeDataArray |-> <<>>, sum |-> 0,
     amplitude |-> Amplitude(0)]

\* getRealAudioAmplitude without the minimum for valid audio
getRealAudioAmplitudeNoMinimum(analyserNode, contextState, timeDataArray) ==
    IF ~analyserNode THEN Amplitude(5)
    ELSE IF contextState # "running" THEN Amplitude(5)
    ELSE LET bufferLength == Len(timeDataArray)
             sum == SumSquares(timeDataArray, 1, bufferLength)
             hasValidData == \E i \in 1..bufferLength : timeDataArray[i] # 128
         IN  IF ~hasValidData THEN Amplitude(5)
             ELSE IF ~ResponsiveBelow(sum, bufferLength, 85) THEN Amplitude(85)
             ELSE Responsive(sum)

\* getRealAudioAmplitude: 0.05 without an analyser, with a context that
\* is not running, or for a buffer of silence; else
\* Math.max(Math.min(responsive, 0.85), 0.08)
getRealAudioAmplitude(analyserNode, contextState, timeDataArray) ==
    IF ~analyserNode THEN Amplitude(5)
    ELSE IF contextState # "running" THEN Amplitude(5)
    ELSE LET bufferLength == Len(timeDataArray)
             sum == SumSquares(timeDataArray, 1, bufferLength)
             hasValidData == \E i \in 1..bufferLength : timeDataArray[i] # 128
         IN  IF ~hasValidData THEN Amplitude(5)
             ELSE IF ~ResponsiveBelow(sum, bufferLength, 85) THEN Amplitude(85)
             ELSE IF ResponsiveBelow(sum, bufferLength, 8) THEN Amplitude(8)
             ELSE Responsive(sum)

\* the sampler reads an amplitude
ReadAmplitude(analyserNode, contextState, timeDataArray) ==
    /\ reading' =
          [analyser |-> analyserNode, state |-> contextState,
           timeDataArray |-> timeDataArray,
           sum |-> SumSquares(timeDataArray, 1, Len(timeDataArray)),
           amplitude |-> getRealAudioAmplitude(analyserNode, contextState,
                                               timeDataArray)]
    /\ UNCHANGED <<waveformData, visualizer, recVars, playerVars, exportVars>>

\* the recordingState and playbackState props the component is rendered
\* with
PlaybackStates == {"idle", "playing", "paused", "ended"}

\* The component after its first render.  interval is the setInterval of
\* the sampling effect: "none", or the branch that armed it.  An amplitude
\* getRealAudioAmplitude returns is written as the ordinal of the reading
\* since the waveform was last empty, so that every sample can be told
\* from the others; readings counts them.
VisualizerMounted ==
    /\ waveformData = <<>>
    /\ visualizer = [recordingState |-> "idle", playbackState |-> "idle",
                     isRecordingComplete |-> FALSE, interval |-> "none",
                     readings |-> 0]
    /\ reading = NoReading

\* The sampling effect for props (recording, playback), after the cleanup
\* of the previous run has cleared its interval; a run that sets
\* isRecordingComplete is followed by the run that change causes, which
\* takes the same branch or none.
SamplingEffect(v, recording, playback) ==
    LET w == [v EXCEPT !.recordingState = recording,
                       !.playbackState = playback,
                       !.interval = "none"]
    IN  IF recording = "recording"
        THEN [w EXCEPT !.isRecordingComplete = FALSE,
                       !.interval = "recording"]
        ELSE IF playback = "playing"
        THEN [w EXCEPT !.interval = "playing"]
        ELSE IF recording = "stopped" /\ ~v.isRecordingComplete
        THEN [w EXCEPT !.isRecordingComplete = TRUE]
        ELSE IF recording = "idle" /\ playback = "idle"
        THEN [w EXCEPT !.isRecordingComplete = FALSE, !.readings = 0]
        ELSE w

\* the parent renders the component with other props and the effect runs
Render(recording, playback) ==
    /\ <<recording, playback>>
          # <<visualizer.recordingState, visualizer.playbackState>>
    /\ visualizer' = SamplingEffect(visualizer, recording, playback)
    /\ waveformData' =
          IF recording = "idle" /\ playback = "idle"
          THEN <<>>
          ELSE waveformData
    /\ UNCHANGED <<reading, recVars, playerVars, exportVars>>

\* a sampling step that, once full, replaces the newest sample
SampleReplacesNewest ==
    /\ visualizer.interval # "none"
    /\ LET prev == waveformData
           newAmplitude == visualizer.readings + 1
       IN  /\ waveformData' =
                 IF Len(prev) < maxPoints
                 THEN prev \o <<newAmplitude>>
                 ELSE SubSeq(prev, 1, Len(prev) - 1) \o <<newAmplitude>>
           /\ visualizer' = [visualizer EXCEPT !.readings = newAmplitude]
    /\ UNCHANGED <<reading, recVars, playerVars, exportVars>>

\* the 100 ms interval fires: the updater of setWaveformData appends the
\* amplitude read, and drops the first sample once maxPoints are held
Sample ==
    /\ visualizer.interval # "none"
    /\ LET prev == waveformData
           newAmplitude == visualizer.readings + 1
       IN  /\ waveformData' =
                 IF Len(prev) < maxPoints
                 THEN prev \o <<newAmplitude>>
                 ELSE SubSeq(prev, 2, Len(prev)) \o <<newAmplitude>>
           /\ visualizer' = [visualizer EXCEPT !.readings = newAmplitude]
    /\ UNCHANGED <<reading, recVars, playerVars, exportVars>>

---------------------------------------------------------------------------
(* The recorder from construction *)

InitRec ==
    /\ state = "idle"
    /\ audioBlob = NoBlob
    /\ audioUrl = 0
    /\ duration = 0
    /\ currentTime = 0
    /\ audioContext = 0
    /\ analyser = 0
    /\ countdownValue = 0
    /\ undoHistory = <<>>
    /\ mediaRecorderRef = 0
    /\ streamRef = 0
    /\ chunksRef = <<>>
    /\ startTimeRef = 0
    /\ pausedTimeRef = 0
    /\ intervalRef = FALSE
    /\ sourceRef = 0
    /\ countdownTimerRef = 0
    /\ sessions = <<>>
    /\ now = 0
    /\ urlSeq = 0
    /\ starts = [c \in StartIds |-> NoCall]
    /\ cuts = <<>>
    /\ activeTime = 0
    /\ cutLog = <<>>
    /\ pushLog = <<>>
    /\ newAudioBuffer = NoBuffer
    /\ resetAudioContext = 0
    /\ cutCount = 0
    /\ cutRun = 0
    /\ undoRun = 0
    /\ overlapped = FALSE
    /\ PlayerMounted
    /\ ExportMounted
    /\ VisualizerMounted

NextRec ==
    \/ UpdateTimer
    \/ StartResume
    \/ StartCountdown
    \/ StartDirect
    \/ \E c \in StartIds : CountdownTick(c)
    \/ \E c \in StartIds : GetUserMediaFails(c)
    \/ \E c \in StartIds :
          Len(sessions) < MaxSessions /\ GetUserMediaResolves(c)
    \/ \E i \in SessionIds : DataAvailable(i)
    \/ \E i \in SessionIds, lastSize \in {0, 1} : RecorderStopped(i, lastSize)
    \/ PauseRecording
    \/ StopRecording
    \/ ResetRecording
    \/ now < MaxNow /\ Tick

SpecRec == InitRec /\ [][NextRec]_vars

\* The same recorder over a shorter time and with fewer capture sessions
ShortNow == 3000
ShortSessions == 1

NextRecShort ==
    \/ UpdateTimer
    \/ StartResume
    \/ StartCountdown
    \/ StartDirect
    \/ \E c \in StartIds : CountdownTick(c)
    \/ \E c \in StartIds : GetUserMediaFails(c)
    \/ \E c \in StartIds :
          Len(sessions) < ShortSessions /\ GetUserMediaResolves(c)
    \/ \E i \in SessionIds : DataAvailable(i)
    \/ \E i \in SessionIds, lastSize \in {0, 1} : RecorderStopped(i, lastSize)
    \/ PauseRecording
    \/ StopRecording
    \/ ResetRecording
    \/ now < ShortNow /\ Tick

SpecRecShort == InitRec /\ [][NextRecShort]_vars

---------------------------------------------------------------------------
(* Claims about the recording state machine, under SpecRec *)

LiveRecorders == {i \in SessionIds : sessions[i].rec \in {"recording", "paused"}}

CountdownRunning == \E c \in StartIds : starts[c].pc = "countdown"

\* C2: a second startRecording issued while an earlier one is still
\* resolving (in state idle or countdown) is rejected or queued, never
\* interleaved: when such a call acquires its stream and creates its
\* MediaRecorder, no other capture session is live, and no live stream is
\* dropped from streamRef, the only reference stop and reset release it by.
C2_OneCaptureSession ==
    [][\A c \in StartIds :
          (/\ starts[c].pc = "gum" /\ starts[c].st \in {"idle", "countdown"}
           /\ Len(sessions') > Len(sessions))
          => /\ LiveRecorders = {}
             /\ \A i \in SessionIds : sessions[i].stream # "live"]_vars

\* C3: when getUserMedia fails, the state machine is left in the state it
\* had when that startRecording was called.
C3_DeviceFailureKeepsPriorState ==
    [][\A c \in StartIds :
          (/\ starts[c].pc = "gum" /\ starts'[c].pc = "free"
           /\ starts[c].st = "idle"
           /\ sessions = <<>> /\ sessions' = <<>>
           /\ \A d \in StartIds \ {c} : starts[d].pc = "free")
          => state' = starts[c].st]_vars

\* C4: the final duration stopRecording sets is the time spent in state
\* recording, whether stop is issued from recording or from paused.
C4_PausedTimeNotCounted ==
    state = "stopped" => duration = activeTime

\* C5: state recording is entered only after the countdown's last tick:
\* the state is never recording while a countdown timer is still running.
C5_NoRecordingDuringCountdown ==
    state = "recording" => ~CountdownRunning

Cleared ==
    /\ state = "idle"
    /\ audioBlob = NoBlob
    /\ audioUrl = 0
    /\ duration = 0
    /\ currentTime = 0
    /\ undoHistory = <<>>

StartRecordingCalled ==
    \E c \in StartIds : starts[c].pc = "free" /\ starts'[c].pc # "free"

\* C6: what resetRecording cleared stays cleared until the next
\* startRecording: no late callback re-populates the blob or changes the
\* state.
C6_ResetStaysCleared ==
    [][(Cleared /\ ~StartRecordingCalled) => Cleared']_vars

---------------------------------------------------------------------------
(* The editor, from a stopped recording *)

\* frames in the longest recording the cut is tried on
MaxFrames == 4
\* channel counts and (scaled) sample rates the decoder may report
ChannelCounts == {1, 2}
SampleRates == {1, 2, 4}

\* The decoded samples of a recording: frame i of channel c holds a value
\* that names both, positive in odd frames and negative in even ones.
\* A sample s stands for the float s / 32768.
Samples(nch, frames) ==
    [k \in 1..(nch * frames) |->
        LET c == ((k - 1) % nch) + 1
            i == ((k - 1) \div nch) + 1
        IN  (IF i % 2 = 0 THEN -1 ELSE 1) * (1000 * c + 10 * i)]

\* the blob mediaRecorder.onstop publishes, by what it decodes to
RecordedBlob(nch, rate, frames) ==
    [type |-> NegotiatedMime, nch |-> nch, rate |-> rate,
     data |-> Samples(nch, frames)]

\* The hook after one recording of the blob was made and stopped: the state
\* startRecording, stopRecording and onstop leave behind.
StoppedWith(blob) ==
    LET recorded == BufferDuration(Decode(blob)) IN
    /\ state = "stopped"
    /\ audioBlob = blob
    /\ audioUrl = 1
    /\ duration = recorded
    /\ currentTime = recorded
    /\ audioContext = 1
    /\ analyser = 1
    /\ countdownValue = 0
    /\ undoHistory = <<>>
    /\ mediaRecorderRef = 1
    /\ streamRef = 0
    /\ chunksRef = blob.data
    /\ startTimeRef = CountdownFrom * CountdownIntervalMs
    /\ pausedTimeRef = 0
    /\ intervalRef = FALSE
    /\ sourceRef = 0
    /\ countdownTimerRef = 0
    /\ sessions = <<[stream |-> "ended", rec |-> "inactive", sliceDue |-> FALSE,
                     stopTask |-> FALSE, ctx |-> 0, mime |-> NegotiatedMime,
                     emitted |-> Len(blob.data)]>>
    /\ now = CountdownFrom * CountdownIntervalMs + recorded
    /\ urlSeq = 1
    /\ starts = [c \in StartIds |-> NoCall]
    /\ cuts = <<>>
    /\ activeTime = recorded
    /\ cutLog = <<>>
    /\ pushLog = <<>>
    /\ newAudioBuffer = NoBuffer
    /\ resetAudioContext = 1
    /\ cutCount = 0
    /\ cutRun = 0
    /\ undoRun = 0
    /\ overlapped = FALSE
    /\ PlayerMounted
    /\ ExportMounted
    /\ VisualizerMounted

\* the selections tried in SpecEdit, <<startTime, endTime>> in ms: the
\* second frame of the recording, and the whole of the one-second recording
EditSelections == {<<250, 500>>, <<0, 1000>>}

InitEdit ==
    StoppedWith(RecordedBlob(CaptureConstraints.channelCount,
                             CaptureConstraints.sampleRate, MaxFrames))

\* The waveform hands cutAudio the smaller end of the selection first.
NextEdit ==
    \/ \E selection \in EditSelections : CutStart(selection[1], selection[2])
    \/ \E k \in CutIds : CutDecodeFails(k)
    \/ \E k \in CutIds : CutFinish(k)
    \/ Undo
    \/ ResetRecording

SpecEdit == InitEdit /\ [][NextEdit]_vars

---------------------------------------------------------------------------
(* One cut of any recording *)

\* selection ends on a grid of an eighth of a second
TimeStepMs == 125
CutTimes(limit) == {t \in 0..limit : t % TimeStepMs = 0}

InitCut ==
    \E nch \in ChannelCounts, rate \in SampleRates, frames \in 1..MaxFrames :
        StoppedWith(RecordedBlob(nch, rate, frames))

CutOnce ==
    /\ cutCount = 0
    /\ \E startTime \in CutTimes(duration), endTime \in CutTimes(duration) :
          startTime <= endTime /\ CutStart(startTime, endTime)

NextCut ==
    \/ CutOnce
    \/ \E k \in CutIds : CutDecodeFails(k)
    \/ \E k \in CutIds : CutFinish(k)

SpecCut == InitCut /\ [][NextCut]_vars

---------------------------------------------------------------------------
(* Claims about the editor *)

\* a cut call that is alone in flight and whose recording nothing has
\* touched since the call
Untouched(call) ==
    /\ cuts = <<call>>
    /\ audioBlob = call.before.audioBlob
    /\ audioUrl = call.before.audioUrl
    /\ duration = call.before.duration

\* the step is the end of a cut call that was rejected or that failed
CutEndsUnapplied == Len(cuts') < Len(cuts) /\ urlSeq' = urlSeq

\* the step is the end of a cut call that built a new recording
CutEndsApplied == Len(cuts') < Len(cuts) /\ urlSeq' # urlSeq

\* C7: a cut that is rejected (newLength <= 0) or whose decoding fails
\* leaves audioBlob, audioUrl, duration and the undo stack as they were
\* before the call.
C7_RejectedCutMutatesNothing ==
    [][\A k \in 1..Len(cuts) :
          (Untouched(cuts[k]) /\ CutEndsUnapplied)
          => Recording' = cuts[k].before]_vars

\* C8: for an accepted cut with 0 <= startTime < endTime <= duration the new
\* buffer keeps the channel count and the sample rate, has length
\* originalLength - (endSample - startSample), holds old[i] at i < startSample
\* and old[i + (endSample - startSample)] from startSample on, in every
\* channel, and the new duration is newLength / sampleRate.
C8_CutArithmetic ==
    [][\A k \in 1..Len(cuts) :
          (/\ Untouched(cuts[k]) /\ CutEndsApplied
           /\ 0 <= cuts[k].startTime
           /\ cuts[k].startTime < cuts[k].endTime
           /\ cuts[k].endTime <= cuts[k].before.duration)
          =>
          LET old == Decode(cuts[k].blob)
              new == newAudioBuffer'
              startSample == (cuts[k].startTime * old.sampleRate) \div MsPerSecond
              endSample == (cuts[k].endTime * old.sampleRate) \div MsPerSecond
              newLength == old.length - (endSample - startSample)
          IN  /\ new.numberOfChannels = old.numberOfChannels
              /\ new.sampleRate = old.sampleRate
              /\ new.length = newLength
              /\ \A c \in 1..old.numberOfChannels :
                    /\ Len(new.channels[c]) = newLength
                    /\ \A i \in 0..(newLength - 1) :
                          new.channels[c][i + 1] =
                              IF i < startSample
                              THEN old.channels[c][i + 1]
                              ELSE old.channels[c][i + (endSample - startSample) + 1]
              /\ duration' * old.sampleRate = newLength * MsPerSecond]_vars

\* C8 witness: a cut from inside a stereo recording was applied, with
\* samples kept on both sides of the cut
C8_Witness ==
    /\ cutCount = 1 /\ cuts = <<>>
    /\ newAudioBuffer.numberOfChannels = 2
    /\ newAudioBuffer.length = 2
    /\ newAudioBuffer.channels[1] = <<1010, -1040>>
    /\ newAudioBuffer.channels[2] = <<2010, -2040>>
    /\ duration = 500

\* every entry of the stack is the snapshot pushed at that depth
StackIsRecentPushes ==
    /\ Len(undoHistory) <= Len(pushLog)
    /\ undoHistory = SubSeq(pushLog, 1, Len(undoHistory))

C10_UndoStackBounded ==
    /\ [](Len(undoHistory) <= 3 /\ StackIsRecentPushes)
    /\ [][(Len(undoHistory) = 3 /\ Len(pushLog') > Len(pushLog))
          => undoHistory' = <<Head(pushLog')>> \o SubSeq(undoHistory, 1, 2)]_vars

\* C10 witness: a snapshot was pushed onto a full stack, and the stack
\* holds the three latest of four different recordings
C10_Witness ==
    /\ Len(undoHistory) = 3
    /\ Len(pushLog) = 4
    /\ Cardinality({pushLog[n].blob : n \in 1..4}) = 4

---------------------------------------------------------------------------
(* The player from construction *)

NextPlayer ==
    \/ \E url \in 0..MaxUrls, volume \in VolumeLevels :
          /\ Cardinality(elements) < MaxElements
          /\ SourceChanges(url, volume)
    \/ \E k \in 1..MaxRuns :
          /\ Cardinality(elements) < MaxElements
          /\ ProcessResolves(k)
    \/ \E k \in 1..MaxRuns :
          /\ Cardinality(elements) < MaxElements
          /\ ProcessFails(k)
    \/ \E e \in elements : LoadedMetadata(e)
    \/ \E e \in elements :
          /\ e.ctx = 0 => contextSeq < MaxContexts
          /\ SetupAudioAnalysis(e)
    \/ /\ playerSourceRef # NoAudio => forceRecreation < MaxRecreations
       /\ Cardinality(elements) < MaxElements
       /\ Stop

SpecPlayer == InitRec /\ [][NextPlayer]_vars

\* C1: once no enhancement run is in flight, the loaded audio element and
\* processedAudioUrl derive from the newest source only (the audioUrl and
\* volumeLevel of the latest render), and with the source cleared
\* (audioUrl = null) no audio element is loaded.
C1_StaleEnhancementDiscarded ==
    runs = <<>> =>
        IF playerAudioUrl = 0
        THEN audioRef = NoAudio
        ELSE audioRef.element =>
                /\ audioRef.src.url = playerAudioUrl
                /\ audioRef.src.kind = "processed" =>
                      /\ audioRef.src.volume = volumeLevel
                      /\ processedAudioUrl = audioRef.src


---------------------------------------------------------------------------
(* More claims about the recording state machine, under SpecRec *)

\* the step is recorder i's onstop handler
OnStop(i) == sessions[i].stopTask /\ ~sessions'[i].stopTask

C12_TimerActiveIffRecording ==
    /\ [](intervalRef <=> state = "recording")
    /\ [][UpdateTimer => state = "recording"]_vars

\* C12 witness: the timer has written the elapsed time of a recording that
\* was paused and resumed
C12_Witness ==
    /\ state = "recording" /\ intervalRef
    /\ pausedTimeRef # 0
    /\ currentTime > 0
    /\ currentTime = now - startTimeRef


---------------------------------------------------------------------------
(* More claims about the player, under SpecPlayer *)

\* the step runs the source-loading effect: a render with other props or
\* with forceRecreation bumped
EffectRuns ==
    playerProps' # playerProps \/ forceRecreation' # forceRecreation

\* the effect of this step took the cache-hit branch, the only one in
\* which the effect itself loads enhanced audio
CacheHitLoads ==
    /\ EffectRuns
    /\ CacheHit([Player EXCEPT !.forceRecreation = forceRecreation'],
                playerAudioUrl', volumeLevel')
    /\ audioRef'.element

\* C13: whenever the cache-hit branch of the effect loads
\* processedAudioUrl, that URL was rendered from the current audioUrl at
\* the current volumeLevel, after any sequence of source changes, volume
\* changes, failed enhancement runs and stops that force re-creation.
C13_CacheHitLoadsCurrentSource ==
    [][CacheHitLoads
       => audioRef'.src = ProcessedUrl(playerAudioUrl', volumeLevel')]_vars

---------------------------------------------------------------------------
(* Export and enhancement from construction *)

NextExport ==
    \/ \E blob \in RecorderBlobs, format \in ExportFormats \cup {""},
          processBuffer \in BOOLEAN, volume \in AnyVolume,
          buffer \in ExportBuffers :
          /\ ~processBuffer => volume = "standard"
          /\ DownloadAudio(blob, format, processBuffer, volume, buffer)
    \/ \E blob \in RecorderBlobs, selectedFormat \in ExportFormats,
          selectedVolume \in VolumeLevels, buffer \in ExportBuffers :
          HandleDownload(blob, selectedFormat, selectedVolume, buffer)
    \/ EnhanceResolves
    \/ EnhanceFails
    \/ ConvertResolves
    \/ ConvertFails
    \/ \E volume \in AnyVolume, buffer \in ExportBuffers :
          ProcessAudio(volume, buffer)

SpecExport == InitRec /\ [][NextExport]_vars

\* C14: for every export format, when an enhancement callback is supplied
\* and the offline rendering succeeded, the downloaded bytes are encoded
\* from the enhanced buffer, not from the raw recording.
C14_DownloadIsEnhanced ==
    (/\ download.pc = "done"
     /\ download.format \in ExportFormats
     /\ download.processBuffer
     /\ download.rendered)
    => download.saved.blob.audio = "enhanced"

\* the container a file extension names
ExtensionContainer(extension) ==
    CASE extension = "wav" -> "wav"
      [] extension = "mp3" -> "mp3"
      [] extension = "webm" -> "webm"
      [] extension = "mp4" -> "mp4"
      [] OTHER -> ""

\* C15: the downloaded file's content matches the selected format and
\* its extension: wav gives a RIFF/WAVE file, mp3 an MP3 file, webm the
\* original capture container byte for byte, and no path names a file with
\* an extension that differs from the container of its bytes (enhancement
\* applied or failed, input an already-cut WAV included).
C15_ContentMatchesExtension ==
    (download.pc = "done" /\ download.format \in ExportFormats)
    => /\ download.format = "wav" => download.saved.blob.container = "wav"
       /\ download.format = "mp3" => download.saved.blob.container = "mp3"
       /\ download.format = "webm" =>
             download.saved.blob = download.audioBlob
       /\ ExtensionContainer(download.saved.filename)
              = download.saved.blob.container



\* a stage of a chain as the specification names it: the filter type (or
\* the node kind) and the filter frequency in Hz (0 for other nodes)
Stage(node) ==
    IF node.node = "BiquadFilter"
    THEN <<node.type, node.params[1]>>
    ELSE <<node.node, 0>>

\* the stages of a chain after its source, in order
Stages(chain) ==
    [i \in 1..(Len(chain.nodes) - 1) |-> Stage(chain.nodes[i + 1])]

\* the chains built so far: by processAudio and by the download
BuiltChains ==
    {c \in {<<preview.volume, preview.chain>>,
            <<download.volume, download.chain>>} : c[2] # NoChain}

\* C16: for any volume level the enhancement chain has the same stages in
\* the same order (high-pass 85 Hz, low-pass 8000 Hz, peaking de-esser
\* 6500 Hz, voice compressor, peaking 800 Hz, 2800 Hz and 4500 Hz,
\* low-shelf 300 Hz, high-shelf 6000 Hz, noise-gate compressor, makeup gain,
\* safety limiter), each node is connected only to its successor, the
\* limiter is last and the makeup gain is immediately before it.
C16_ChainStagesInOrder ==
    \A c \in BuiltChains :
        LET nodes == c[2].nodes
            last == Len(nodes)
        IN  /\ Stages(c[2]) =
                 << <<"highpass", 85>>, <<"lowpass", 8000>>,
                    <<"peaking", 6500>>, <<"DynamicsCompressor", 0>>,
                    <<"peaking", 800>>, <<"peaking", 2800>>,
                    <<"peaking", 4500>>, <<"lowshelf", 300>>,
                    <<"highshelf", 6000>>, <<"DynamicsCompressor", 0>>,
                    <<"Gain", 0>>, <<"DynamicsCompressor", 0>> >>
            /\ \A i \in 1..last :
                  {e[2] : e \in {x \in c[2].connections : x[1] = i}}
                      = IF i < last THEN {i + 1} ELSE {}
            /\ nodes[last].node = "DynamicsCompressor"
            /\ nodes[last].params[1] = -500
            /\ nodes[last].params[3] = 20000
            /\ nodes[last - 1].node = "Gain"

\* C16 witness: processAudio built the chain at one volume level and a
\* download built it at another
C16_Witness ==
    /\ preview.chain # NoChain /\ preview.volume = "high"
    /\ download.chain # NoChain /\ download.volume = "low"
    /\ download.pc = "done"

C18_MakeupGainByVolume ==
    /\ \A c \in BuiltChains :
          c[2].nodes[Len(c[2].nodes) - 1].params =
              CASE c[1] = "low" -> <<1500>>
                [] c[1] = "standard" -> <<3000>>
                [] c[1] = "high" -> <<4500>>
                [] OTHER -> <<3000>>
    /\ \A c, d \in BuiltChains :
          LET gain(x) == x[2].nodes[Len(x[2].nodes) - 1].params[1]
          IN  /\ (c[1] = "standard" /\ d[1] = "low") => gain(c) = 2 * gain(d)
              /\ (c[1] = "high" /\ d[1] = "standard")
                    => 2 * gain(c) = 3 * gain(d)

\* C18 witness: a chain built for a value outside the three levels, and
\* one built for Low
C18_Witness ==
    /\ preview.chain # NoChain /\ preview.volume = "low"
    /\ download.chain # NoChain /\ download.volume = "other"

\* the WAV files written so far, each with the buffer it was encoded from
WrittenWavs ==
    {w \in {<<preview.buffer, preview.wav>>,
            <<download.buffer, download.wav>>} : w[2] # NoWav}

\* C20: for a buffer of c channels, sample rate r and n frames the encoder
\* writes a 44-byte header with ByteRate = r*c*2, BlockAlign = c*2,
\* DataSize = n*c*2 and RIFF size = 36 + DataSize, and the output is
\* 44 + DataSize bytes long; for c = 2, r = 44100, n = 100 this gives
\* ByteRate 176400, BlockAlign 4, DataSize 400 and 444 bytes in total.
C20_WavHeaderFields ==
    \A w \in WrittenWavs :
        LET c == w[1].numberOfChannels
            r == w[1].sampleRate
            n == w[1].length
            wav == w[2]
        IN  /\ wav.dataOffset = 44
            /\ wav.byteRate = r * c * 2
            /\ wav.blockAlign = c * 2
            /\ wav.dataSize = n * c * 2
            /\ wav.riffSize = 36 + wav.dataSize
            /\ wav.byteLength = 44 + wav.dataSize
            /\ (c = 2 /\ r = 44100 /\ n = 100)
                  => /\ wav.byteRate = 176400
                     /\ wav.blockAlign = 4
                     /\ wav.dataSize = 400
                     /\ wav.byteLength = 444

\* C20 witness: both encoders wrote the WAV of 100 stereo frames at
\* 44100 Hz
C20_Witness ==
    /\ preview.wav # NoWav /\ download.wav # NoWav
    /\ preview.buffer.numberOfChannels = 2
    /\ preview.buffer.sampleRate = 44100
    /\ preview.buffer.length = 100
    /\ download.buffer = preview.buffer
    /\ preview.wav.byteLength = 444
    /\ download.wav.byteLength = 444


\* C21: every WAV encoder clamps each sample to [-1, 1] and scales it by
\* 0x7FFF when it is >= 0 and by 0x8000 when it is < 0, so -1.0 encodes to
\* -32768 and +1.0 to 32767, and the encoders write identical bytes for the
\* same buffer.
C21_WavSampleScaling ==
    /\ \A w \in WrittenWavs :
          LET Encoded(s) ==
                  LET clamped == Max(-32768, Min(32768, s)) IN
                  IF clamped >= 0 THEN Trunc(clamped * 32767, 32768)
                  ELSE Trunc(clamped * 32768, 32768)
          IN  /\ w[2].samples = [k \in DOMAIN Interleaved(w[1]) |->
                                     Encoded(Interleaved(w[1])[k])]
              /\ \A k \in 1..Len(w[2].samples) :
                    LET s == w[1].channels
                               [((k - 1) % w[1].numberOfChannels) + 1]
                               [((k - 1) \div w[1].numberOfChannels) + 1]
                    IN  /\ s = -32768 => w[2].samples[k] = -32768
                        /\ s = 32768 => w[2].samples[k] = 32767
    /\ \A v, w \in WrittenWavs : v[1] = w[1] => v[2].samples = w[2].samples


---------------------------------------------------------------------------
(* The MP3 driver from construction *)

\* encodeBuffer calls the block loop makes for a buffer of n samples
Mp3Calls(n) == (n + blockSize - 1) \div blockSize

NextMp3 ==
    \/ \E blob \in RecorderBlobs, buffer \in Mp3Buffers :
          ConvertToMP3(blob, buffer)
    \/ Mp3DecodeFails
    \/ \E behaviour \in [1..(Mp3Calls(mp3.audioBuffer.length) + 1)
                            -> EncoderOutcomes] :
          Mp3Decoded(behaviour)
    \/ Mp3Closed
    \/ Mp3CloseFails

SpecMp3 == InitRec /\ [][NextMp3]_vars


\* the encodeBuffer calls logged so far
EncodeCalls == SelectSeq(mp3.run.log, LAMBDA call : call.op = "encodeBuffer")

\* the decoded sample at position pos (from 1) of a channel
SourceSample(channel, pos) == mp3.audioBuffer.channels[channel][pos]

\* C22: the MP3 driver converts each float sample s to a 16-bit integer as
\* round(clamp(s, -1, 1) * 32767), clamped to [-32768, 32767], for every s
\* including values outside [-1, 1] (any s <= -1 gives -32767, any s >= 1
\* gives 32767).
C22_Mp3SampleConversion ==
    \A k \in 1..Len(EncodeCalls) :
        \A i \in 1..blockSize :
            LET pos == (k - 1) * blockSize + i
                s == SourceSample(1, pos)
                claimed == Max(-32768, Min(32767,
                               Round(Max(-32768, Min(32768, s)) * 32767)))
            IN  (pos <= mp3.audioBuffer.length /\ i <= Len(EncodeCalls[k].left))
                => /\ EncodeCalls[k].left[i] = claimed
                   /\ s <= -32768 => EncodeCalls[k].left[i] = -32767
                   /\ s >= 32768 => EncodeCalls[k].left[i] = 32767

\* C23: for a buffer of n samples the driver makes exactly ceil(n / 1152)
\* encode calls, each receiving exactly 1152 samples per channel taken in
\* order from the buffer, with 0 in every channel past the end of the
\* buffer; mono input passes one channel per call and stereo two.
C23_Mp3Framing ==
    LET n == mp3.audioBuffer.length
        Framed(block, channel, k) ==
            /\ Len(block) = 1152
            /\ \A i \in 1..Len(block) :
                  LET pos == (k - 1) * 1152 + i IN
                  block[i] = IF pos <= n
                             THEN mp3Sample(SourceSample(channel, pos))
                             ELSE 0
    IN  /\ \A k \in 1..Len(EncodeCalls) :
              /\ Framed(EncodeCalls[k].left, 1, k)
              /\ IF mp3.audioBuffer.numberOfChannels = 1
                 THEN EncodeCalls[k].right = <<>>
                 ELSE Framed(EncodeCalls[k].right, 2, k)
        /\ (mp3.pc \in {"close", "done"} /\ ~mp3.run.thrown
               /\ mp3.run.log # <<>>)
              => Len(EncodeCalls) * 1152 \in n..(n + 1151)

\* C23 witness: a stereo buffer of two blocks and one sample went through
\* three calls, the last one padded
C23_Witness ==
    /\ mp3.pc = "close"
    /\ mp3.audioBuffer.numberOfChannels = 2
    /\ mp3.audioBuffer.length = 2 * 1152 + 1
    /\ Len(EncodeCalls) = 3
    /\ EncodeCalls[3].left[1] # 0
    /\ EncodeCalls[3].right[2] = 0

\* C24: the driver flushes the encoder exactly once, after the last frame
\* has been encoded and never before, and the returned bytes are the
\* non-empty per-frame chunks in emission order followed by the flush
\* bytes.
C24_Mp3FlushOnceAtEnd ==
    LET log == mp3.run.log
        Flushes == {j \in 1..Len(log) : log[j].op = "flush"}
    IN  /\ Cardinality(Flushes) <= 1
        /\ \A j \in Flushes : j = Len(log)
        /\ (mp3.pc = "close") => Cardinality(Flushes) = 1
        /\ (mp3.pc = "done" /\ mp3.result.type = "audio/mpeg")
              => /\ Cardinality(Flushes) = 1
                 /\ mp3.bytes = Combine([j \in 1..Len(log) |-> log[j].out])

\* C24 witness: three frames were encoded, the second gave no bytes, and
\* the bytes returned end with the flush bytes
C24_Witness ==
    /\ mp3.pc = "done" /\ mp3.result.type = "audio/mpeg"
    /\ Len(EncodeCalls) = 3
    /\ EncodeCalls[2].out = <<>>
    /\ mp3.bytes = EncodedBytes(1) \o EncodedBytes(3) \o EncodedBytes(0)

\* C25: convertToMP3 never raises: it returns a non-empty audio/mpeg blob,
\* or, when the total encoded output is empty or decoding or encoding
\* throws, the original input blob unchanged.
C25_Mp3NeverRaises ==
    /\ [](mp3.pc = "done"
            => \/ mp3.result.type = "audio/mpeg" /\ mp3.bytes # <<>>
               \/ mp3.result = mp3.audioBlob)
    /\ []((mp3.pc = "done"
            /\ (mp3.run.thrown \/ mp3.run.log = <<>>
                  \/ \A j \in 1..Len(mp3.run.log) : mp3.run.log[j].out = <<>>))
            => mp3.result = mp3.audioBlob)
    /\ [][(mp3.pc \in {"decode", "close"} /\ mp3' # mp3)
             => mp3'.pc \in {"close", "done"}]_vars

\* C25 witness: the encoder ran through without giving a byte and the
\* caller got the original blob back
C25_Witness ==
    /\ mp3.pc = "done"
    /\ ~mp3.run.thrown
    /\ Len(EncodeCalls) = 2
    /\ mp3.result = mp3.audioBlob
    /\ mp3.result.type = "audio/mp4"


---------------------------------------------------------------------------
(* Playback from construction *)

\* object URLs the player is given in the playback specification
PlayUrls == 1
\* processAudio runs and unfinished audio elements at once
PlaySlots == 2

PlayVolumes == {"standard"}
SeekTimes == {t * PositionStepMs : t \in 0..(MaxSeek \div PositionStepMs)}

NextPlayback ==
    \/ \E url \in 0..PlayUrls, volume \in PlayVolumes :
          /\ Len(runs) + Cardinality(elements) < PlaySlots
          /\ SourceChanges(url, volume)
    \/ \E k \in 1..PlaySlots : ProcessResolves(k)
    \/ \E k \in 1..PlaySlots : ProcessFails(k)
    \/ \E e \in elements : LoadedMetadata(e)
    \/ \E e \in elements :
          /\ e.ctx = 0 => contextSeq < MaxContexts
          /\ SetupAudioAnalysis(e)
    \/ /\ playerSourceRef # NoAudio => forceRecreation < MaxRecreations
       /\ Len(runs) + Cardinality(elements) < PlaySlots
       /\ Stop
    \/ /\ media.promise = "none"
       /\ Play
    \/ PlayResolves
    \/ PlayRejects
    \/ Pause
    \/ \E time \in SeekTimes : Seek(time)
    \/ TimeUpdate
    \/ UpdateTime
    \/ \E current \in BOOLEAN : Ended(current)

SpecPlayback == InitRec /\ [][NextPlayback]_vars

\* processAudio settles: each of its awaits is on a promise the browser
\* settles, and its catch turns every error into null
ProcessSettles == \E k \in 1..PlaySlots : ProcessResolves(k) \/ ProcessFails(k)

SpecPlaybackFair == SpecPlayback /\ WF_vars(ProcessSettles)


---------------------------------------------------------------------------
(* Claims about playback, under SpecPlayback and SpecPlaybackFair *)

\* C26: when the enhancement of a newly loaded source fails, the player
\* falls back to the unmodified source: every load of a non-null audioUrl
\* eventually yields a loaded audio element, the enhanced audio on success
\* and the raw audioUrl on failure, and the failure does not change the
\* playback state.
C26_EnhancementFallback ==
    /\ [][\A k \in 1..Len(runs) :
            ProcessFails(k)
            => /\ audioRef' = Audio(OriginalUrl(runs[k].audioUrl))
               /\ playerState' = playerState]_vars
    /\ [][\A k \in 1..Len(runs) :
            ProcessResolves(k)
            => audioRef' = Audio(ProcessedUrl(runs[k].audioUrl,
                                              runs[k].volumeLevel))]_vars
    /\ (playerAudioUrl # 0) ~> audioRef.element
    /\ (runs # <<>>) ~> audioRef.element

\* C26 witness: an enhancement run failed while the state was playing, and
\* the raw recording is loaded
C26_Witness ==
    /\ audioRef = Audio(OriginalUrl(1))
    /\ playerAudioUrl = 1
    /\ playerState = "playing"
    /\ media.paused
    /\ runs = <<>>

\* the audio element in audioRef.current was made by the step: it still
\* waits for its loadedmetadata
Recreated ==
    audioRef'.element
    => \E e \in elements' : e.src = audioRef'.src /\ e.stage = "loading"

\* C27: stop, from any playback state, leaves the state idle, currentTime
\* at zero and the 100 ms position timer stopped; when a live analysis
\* source exists it is disconnected and the audio element is created again
\* before the next playback.
C27_StopResets ==
    [][Stop
       => /\ playerState' = "idle"
          /\ playerCurrentTime' = 0
          /\ ~playerIntervalRef'
          /\ media'.paused /\ media'.currentTime = 0
          /\ playerSourceRef # NoAudio
                => /\ playerSourceRef' = NoAudio
                   /\ Recreated
                   /\ (audioRef' = NoAudio /\ playerAudioUrl # 0)
                         => Len(runs') = Len(runs) + 1]_vars

\* C27 witness: a stop with a live analysis source has built the enhanced
\* element again, and nothing is playing
C27_Witness ==
    /\ forceRecreation = 1
    /\ playerState = "idle" /\ playerCurrentTime = 0 /\ ~playerIntervalRef
    /\ playerSourceRef = NoAudio
    /\ audioRef = Audio(ProcessedUrl(1, "standard"))
    /\ [src |-> audioRef.src, ctx |-> 1, stage |-> "loading"] \in elements
    /\ media = NoMedia

\* C28: when an audio element reports the end of the source the state
\* becomes ended, the reported position is reset to zero and the position
\* timer is stopped; the state ended is reached only through this event,
\* and a later play moves from ended to playing.
C28_EndedEvent ==
    /\ [][\A current \in BOOLEAN :
            Ended(current)
            => /\ playerState' = "ended"
               /\ playerCurrentTime' = 0
               /\ ~playerIntervalRef']_vars
    /\ [][(playerState' = "ended" /\ playerState # "ended")
            => \E current \in BOOLEAN : Ended(current)]_vars
    /\ [][(playerState = "ended" /\ PlayResolves)
            => playerState' = "playing"]_vars

\* C28 witness: an element that ended was played again and is halfway
C28_Witness ==
    /\ playerState = "playing"
    /\ audioRef.element
    /\ media.currentTime = PositionStepMs
    /\ playerCurrentTime = 0
    /\ playerIntervalRef
    /\ ~media.paused

\* C29: seek(time) in state idle, playing or paused sets the position to
\* time at once and leaves the playback state, the loaded audio element,
\* the duration and the timer unchanged; with no audio element loaded it
\* changes nothing.
C29_SeekFrame ==
    [][\A time \in SeekTimes :
         Seek(time)
         => IF audioRef.element
            THEN /\ playerCurrentTime' = time
                 /\ UNCHANGED <<playerState, audioRef, playerDuration,
                                playerIntervalRef>>
            ELSE UNCHANGED playerVars]_vars

\* C29 witness: the idle player was moved to the end of a loaded recording
C29_Witness ==
    /\ playerState = "idle"
    /\ audioRef.element
    /\ media.paused
    /\ playerDuration = MsPerSecond
    /\ media.currentTime = MsPerSecond
    /\ playerCurrentTime = MsPerSecond


---------------------------------------------------------------------------
(* The waveform from construction *)

\* amplitudes read since the waveform was last empty
MaxReadings == 600

NextWave ==
    \/ \E recording \in RecordingStates, playback \in PlaybackStates :
          Render(recording, playback)
    \/ /\ visualizer.readings < MaxReadings
       /\ Sample

SpecWave == InitRec /\ [][NextWave]_vars

\* C30: the waveform sample sequence never holds more than its capacity of
\* floor((width - 40) / 2) points; below capacity an append adds the new
\* sample at the end, and at capacity each append evicts exactly the
\* oldest sample and keeps the others in their order.
C30_WaveformSlidingWindow ==
    /\ [](Len(waveformData) <= (1200 - 40) \div 2)
    /\ [][Sample
          => LET n == Len(waveformData)
                 capacity == (1200 - 40) \div 2
             IN  /\ waveformData'[Len(waveformData')] = visualizer'.readings
                 /\ IF n < capacity
                    THEN /\ Len(waveformData') = n + 1
                         /\ \A i \in 1..n : waveformData'[i] = waveformData[i]
                    ELSE /\ Len(waveformData') = n
                         /\ \A i \in 1..(n - 1) :
                               waveformData'[i] = waveformData[i + 1]]_vars

\* C30 witness: the full waveform has lost its first twenty samples
C30_Witness ==
    /\ Len(waveformData) = 580
    /\ waveformData[1] = 21
    /\ waveformData[580] = 600
    /\ visualizer.interval = "recording"


\* C31: the waveform sample sequence is empty after any transition of the
\* active state machine to idle: after the recorder is reset to idle, and
\* after the player returns to idle (stop) while a stopped recording still
\* exists, no samples of the previous activity remain.
C31_WaveformClearedOnIdle ==
    [][/\ (/\ visualizer.recordingState # "idle"
           /\ visualizer'.recordingState = "idle"
           /\ visualizer'.playbackState = "idle")
          => waveformData' = <<>>
       /\ (/\ visualizer.playbackState \in {"playing", "paused"}
           /\ visualizer'.playbackState = "idle"
           /\ visualizer.recordingState = "stopped"
           /\ visualizer'.recordingState = "stopped")
          => waveformData' = <<>>]_vars


---------------------------------------------------------------------------
(* The amplitude sampler from construction *)

\* byte values the analyser's buffer is filled with: both ends of the
\* range and values around silence
AmplitudeBytes == {0, 96, 100, 103, 108, 112, 118, 123, 126, 127, 128, 129, 130, 133, 138, 144, 148, 153, 155, 158, 160, 255}
\* how many samples of a buffer differ from silence
AmplitudeCounts == {1, 64, fftSize}

NextAmplitude ==
    \/ \E count \in AmplitudeCounts, byte \in AmplitudeBytes :
          ReadAmplitude(TRUE, "running", TimeData(count, byte))
    \/ \E count \in AmplitudeCounts, byte \in AmplitudeBytes :
          ReadAmplitude(TRUE, "suspended", TimeData(count, byte))
    \/ ReadAmplitude(FALSE, "running", <<>>)

SpecAmplitude == InitRec /\ [][NextAmplitude]_vars

\* a <= b for two amplitudes: the constants by their value, responsive by
\* its sum of squares, and responsive against a constant by the exact
\* comparison
AmplitudeLeq(a, b) ==
    IF a.hundredths # 0 /\ b.hundredths # 0 THEN a.hundredths <= b.hundredths
    ELSE IF a.hundredths = 0 /\ b.hundredths = 0 THEN a.responsive <= b.responsive
    ELSE IF a.hundredths = 0
    THEN ResponsiveBelow(a.responsive, fftSize, b.hundredths)
    ELSE ~ResponsiveBelow(b.responsive, fftSize, a.hundredths)

\* C32: every amplitude the sampler produces lies in [0.05, 0.85]: a
\* silent buffer or a missing analyser gives exactly 0.05, a buffer with a
\* non-silent sample gives at least 0.08, an RMS for which (rms * 4)^0.6
\* exceeds the cap gives exactly 0.85, and the result does not decrease
\* when the RMS grows.
C32_AmplitudeRange ==
    /\ [](reading # NoReading
            => /\ AmplitudeLeq(Amplitude(5), reading.amplitude)
               /\ AmplitudeLeq(reading.amplitude, Amplitude(85))
               /\ (~reading.analyser \/ reading.sum = 0)
                     => reading.amplitude = Amplitude(5)
               /\ (reading.analyser /\ reading.state = "running"
                     /\ reading.sum > 0)
                     => /\ AmplitudeLeq(Amplitude(8), reading.amplitude)
                        /\ ~ResponsiveBelow(reading.sum, fftSize, 85)
                              => reading.amplitude = Amplitude(85))
    /\ [][(/\ reading # NoReading
           /\ reading.analyser /\ reading'.analyser
           /\ reading.state = "running" /\ reading'.state = "running"
           /\ reading.sum <= reading'.sum)
          => AmplitudeLeq(reading.amplitude, reading'.amplitude)]_vars

\* C32 witness: a buffer between the minimum for valid audio and the cap
\* was read
C32_Witness ==
    /\ reading.analyser /\ reading.state = "running"
    /\ reading.amplitude = Responsive(reading.sum)
    /\ reading.sum = 64 * 32 * 32


---------------------------------------------------------------------------
(* More claims about playback, under SpecPlayback *)

\* C33: at most one audio element of the player is playing at any time:
\* whenever a new element is installed in audioRef the element it replaces
\* has been paused, so no playing element is left without a reference
\* through which pause and stop can reach it.
C33_OnePlayingElement ==
    /\ ~media.orphan
    /\ media.promise # "detached"


---------------------------------------------------------------------------
(* Reloading the source during playback *)

ReloadVolumes == {"standard", "high"}

NextReload ==
    \/ \E url \in 0..PlayUrls, volume \in ReloadVolumes :
          /\ Len(runs) + Cardinality(elements) < PlaySlots
          /\ SourceChanges(url, volume)
    \/ \E k \in 1..PlaySlots : ProcessResolves(k)
    \/ \E k \in 1..PlaySlots : ProcessFails(k)
    \/ \E e \in elements : LoadedMetadata(e)
    \/ \E e \in elements :
          /\ e.ctx = 0 => contextSeq < MaxContexts
          /\ SetupAudioAnalysis(e)
    \/ /\ playerSourceRef # NoAudio => forceRecreation < MaxRecreations
       /\ Len(runs) + Cardinality(elements) < PlaySlots
       /\ Stop
    \/ /\ media.promise = "none"
       /\ Play
    \/ PlayResolves
    \/ Pause

SpecReload == InitRec /\ [][NextReload]_vars

\* C34: the state playing implies that the loaded audio element is the one
\* that was started and is still playing: when the source changes (new
\* audioUrl, new volume level, or forced re-creation) while the state is
\* playing or paused, the state returns to idle and the position timer is
\* stopped together with the replacement of the element.
C34_SourceChangeReturnsToIdle ==
    [][(/\ EffectRuns
        /\ playerState \in {"playing", "paused"})
       => /\ playerState' = "idle"
          /\ ~playerIntervalRef']_vars


\* C37: the playback state paused is entered only from playing: pause() in
\* idle or ended with an element loaded leaves the state unchanged, and a
\* play() that fails leaves the state as it was before the call.
C37_PausedOnlyFromPlaying ==
    [][/\ (playerState # "paused" /\ playerState' = "paused")
          => playerState = "playing"
       /\ PlayRejects => playerState' = playerState]_vars


---------------------------------------------------------------------------
(* More claims about the editor, under SpecEdit *)

\* C35: after every completed cut the top of the undo stack is the
\* recording (blob and duration) that was current immediately before that
\* cut took effect, under every interleaving of cutAudio calls with each
\* other and with undo.
C35_CutKeepsSuperseded ==
    [][CutEndsApplied
       => /\ undoHistory' # <<>>
          /\ Head(undoHistory') = [blob |-> audioBlob, duration |-> duration]]_vars


---------------------------------------------------------------------------
(* App: the recorder and the player behind the buttons *)

\* capture sessions in one behaviour of the application; one
\* startRecording call is in flight at a time, and the volume is left alone
AppSessions == 2

\* App.tsx line 69
hasRecording == audioBlob # NoBlob
\* AudioControls.tsx lines 124-126
isRecordingActive == state \in {"recording", "paused"}
canPlay == hasRecording /\ ~isRecordingActive
showPlaybackControls == hasRecording /\ ~isRecordingActive

\* the player was rendered with the recorder's audioUrl and its effect ran
Synced == playerAudioUrl = audioUrl

\* App renders useAudioPlayer(recorderData.audioUrl, true, selectedVolume):
\* the source effect of the player runs after every render in which the
\* recorder's audioUrl has changed, before any other handler
AppEffect ==
    /\ ~Synced
    /\ SourceChanges(audioUrl, volumeLevel)

\* the Record/Pause/Resume button, shown without the playback controls
\* and disabled while the player is playing
handleRecordClick ==
    /\ ~showPlaybackControls
    /\ playerState # "playing"
    /\ IF state = "recording"
       THEN PauseRecording
       ELSE StartResume \/ StartCountdown \/ StartDirect

\* the Play/Pause button, shown with the playback controls
handlePlayClick ==
    /\ showPlaybackControls
    /\ canPlay
    /\ IF playerState = "playing"
       THEN Pause
       ELSE media.promise = "none" /\ Play

\* the Stop button of either layout
handleStopClick ==
    /\ IF showPlaybackControls
       THEN ~(playerState = "idle" /\ state = "idle")
       ELSE state # "idle"
    /\ LET playbackActive == playerState \in {"playing", "paused"} IN
        \/ /\ isRecordingActive /\ ~playbackActive
           /\ StopRecording
        \/ /\ ~isRecordingActive /\ playbackActive
           /\ playerSourceRef # NoAudio => forceRecreation < MaxRecreations
           /\ Len(runs) < MaxRuns
           /\ Stop
        \/ /\ isRecordingActive /\ playbackActive
           /\ playerSourceRef # NoAudio => forceRecreation < MaxRecreations
           /\ Len(runs) < MaxRuns
           /\ stopRecording
           /\ stop
           /\ UNCHANGED <<playerProps, contextSeq, exportVars, waveVars>>

\* App's New button, shown with a recording
handleConfirmNewRecording ==
    /\ hasRecording
    /\ state # "countdown"
    /\ playerState # "playing"
    /\ ResetRecording

NextApp ==
    \/ AppEffect
    \/ /\ Synced
       /\ \A c \in StartIds : starts[c].pc = "free"
       /\ handleRecordClick
    \/ Synced /\ handlePlayClick
    \/ Synced /\ handleStopClick
    \/ Synced /\ handleConfirmNewRecording
    \/ Synced /\ \E c \in StartIds : CountdownTick(c)
    \/ Synced /\ \E c \in StartIds :
          Len(sessions) < AppSessions /\ GetUserMediaResolves(c)
    \/ Synced /\ \E i \in SessionIds :
          /\ Len(runs) < MaxRuns
          /\ urlSeq < MaxUrls
          /\ RecorderStopped(i, 1)
    \/ Synced /\ now < ShortNow /\ Tick
    \/ Synced /\ \E k \in 1..MaxRuns : ProcessResolves(k)
    \/ Synced /\ \E e \in elements : LoadedMetadata(e)
    \/ Synced /\ \E e \in elements :
          /\ e.ctx = 0 => contextSeq < MaxContexts
          /\ SetupAudioAnalysis(e)
    \/ Synced /\ PlayResolves
    \/ Synced /\ PlayRejects

SpecApp == InitRec /\ [][NextApp]_vars

\* the recorder hook holds the AudioContext of a capture (no code path of
\* the recorder closes one)
CaptureContextLive == audioContext # 0

\* the player hook holds an AudioContext that was not closed
PlaybackContextLive ==
    /\ playerAudioContext # 0
    /\ playerAudioContext \notin closedContexts

\* C36: with the operations gated as AudioControls and WaveformVisualizer
\* gate them, the recorder is never in recording or paused while the
\* player is in playing, and the capture analysis context and the playback
\* analysis context are never both live.
C36_ExclusiveOwnership ==
    /\ ~(isRecordingActive /\ playerState = "playing")
    /\ ~(CaptureContextLive /\ PlaybackContextLive)


---------------------------------------------------------------------------
(* The recorder of src/src/hooks/useAudioRecorder.ts: no countdown, and one
   path through startRecording for a new recording and for a resume *)

\* capture sessions in one behaviour of this recorder
HookSessions == 2

\* startRecording up to its await of getUserMedia, in any state: the call
\* keeps the state and the audioContext of its render
HookStartRecording ==
    /\ HasFreeSlot
    /\ starts' = [starts EXCEPT ![FreeSlot] =
                     [pc |-> "gum", st |-> state, ctx |-> audioContext,
                      count |-> 0, due |-> 0]]
    /\ UNCHANGED <<recState, recRefs, sessions, now, urlSeq, cutVars, recHist>>
    /\ UNCHANGED <<playerVars, exportVars, waveVars>>
    /\ UNCHANGED resetAudioContext

\* getUserMedia rejects: the catch block logs
HookGetUserMediaFails(c) ==
    /\ starts[c].pc = "gum"
    /\ starts' = [starts EXCEPT ![c] = NoCall]
    /\ UNCHANGED <<recState, recRefs, sessions, now, urlSeq, cutVars, recHist>>
    /\ UNCHANGED <<playerVars, exportVars, waveVars>>
    /\ UNCHANGED resetAudioContext

\* getUserMedia resolves: the rest of startRecording (lines 66-152).  A new
\* stream, AudioContext and MediaRecorder replace the ones in the refs and
\* the chunks are emptied, whatever the state.  In a call made in state
\* paused the start time is adjusted and resume() is called on the new
\* recorder, which is inactive: resume() throws InvalidStateError and the
\* catch block logs, before setState and startTimer.
HookGetUserMediaResolves(c) ==
    /\ starts[c].pc = "gum"
    /\ LET i == Len(sessions) + 1
           s == NewSession(starts[c].ctx)
           resumes == starts[c].st = "paused"
       IN
        /\ streamRef' = i
        /\ audioContext' = i
        /\ analyser' = i
        /\ mediaRecorderRef' = i
        /\ chunksRef' = <<>>
        /\ IF resumes
           THEN /\ startTimeRef' = startTimeRef + (now - pausedTimeRef)
                /\ sessions' = Append(sessions, s)
                /\ UNCHANGED <<pausedTimeRef, currentTime, state, intervalRef,
                               activeTime>>
           ELSE /\ startTimeRef' = now
                /\ pausedTimeRef' = 0
                /\ currentTime' = 0
                /\ sessions' = Append(sessions, [s EXCEPT !.rec = "recording"])
                /\ state' = "recording"
                /\ intervalRef' = TRUE
                /\ activeTime' = 0
    /\ starts' = [starts EXCEPT ![c] = NoCall]
    /\ UNCHANGED <<audioBlob, audioUrl, duration, countdownValue, undoHistory>>
    /\ UNCHANGED <<sourceRef, countdownTimerRef, now, urlSeq, cutVars,
                   editHist>>
    /\ UNCHANGED <<playerVars, exportVars, waveVars>>
    /\ UNCHANGED resetAudioContext

\* pauseRecording (lines 155-163), the same code as in the other recorder
HookPauseRecording == PauseRecording

\* stopRecording (lines 165-171)
HookStopRecording ==
    /\ mediaRecorderRef # 0
    /\ state \in {"recording", "paused"}
    /\ sessions' = RecorderStop(sessions, mediaRecorderRef)
    /\ state' = "stopped"
    /\ intervalRef' = FALSE
    /\ UNCHANGED <<audioBlob, audioUrl, duration, currentTime, audioContext,
                   analyser, countdownValue, undoHistory>>
    /\ UNCHANGED <<mediaRecorderRef, streamRef, chunksRef, startTimeRef,
                   pausedTimeRef, sourceRef, countdownTimerRef>>
    /\ UNCHANGED <<now, urlSeq, starts, cutVars, recHist>>
    /\ UNCHANGED <<playerVars, exportVars, waveVars>>
    /\ UNCHANGED resetAudioContext

NextHook ==
    \/ HookStartRecording
    \/ \E c \in StartIds : HookGetUserMediaFails(c)
    \/ \E c \in StartIds :
          Len(sessions) < HookSessions /\ HookGetUserMediaResolves(c)
    \/ \E i \in SessionIds : DataAvailable(i)
    \/ HookPauseRecording
    \/ HookStopRecording
    \/ now < ShortNow /\ Tick

SpecHook == InitRec /\ [][NextHook]_vars

\* C38: in the recorder of src/src/hooks/useAudioRecorder.ts, startRecording
\* called in state paused resumes the same capture session: the state
\* becomes recording, the chunks accumulated before the pause are retained,
\* and no second capture device or MediaRecorder is acquired.
C38_ResumeKeepsSession ==
    [][\A c \in StartIds :
          (/\ starts[c].st = "paused"
           /\ HookGetUserMediaResolves(c))
          => /\ state' = "recording"
             /\ chunksRef' = chunksRef
             /\ Len(sessions') = Len(sessions)
             /\ mediaRecorderRef' = mediaRecorderRef]_vars

=============================================================================
